---- MODULE Spec2Model ----
(***************************************************************************)
(* Model of the migration-guide MCP server: the three per-mode template     *)
(* generators, the mode dispatcher, the smithery.yaml generator and the     *)
(* registered tool handlers.                                                *)
(*                                                                          *)
(* Every operation of the program is a pure function of its request, so the *)
(* state is the request in hand, the operation that ran and its result.     *)
(*                                                                          *)
(* Text that the code transforms character by character (property keys,     *)
(* tool names, descriptions) is a sequence of one-character strings.        *)
(* Generated source text is a sequence of tokens, one per template          *)
(* fragment, in the order the template emits them.                          *)
(* A JavaScript value is a record tagged by its typeof-like kind `t`.       *)
(***************************************************************************)
EXTENDS Integers, Sequences, FiniteSets, TLC

VARIABLES req, mode, op, res

vars == <<req, mode, op, res>>

(***************************************************************************)
(* Bounds                                                                   *)
(***************************************************************************)
MaxTools == 3
MaxPrompts == 2
MaxResources == 1

(***************************************************************************)
(* Characters and strings                                                   *)
(***************************************************************************)
Lowers == <<"a","b","c","d","e","f","g","h","i","j","k","l","m",
            "n","o","p","q","r","s","t","u","v","w","x","y","z">>
Uppers == <<"A","B","C","D","E","F","G","H","I","J","K","L","M",
            "N","O","P","Q","R","S","T","U","V","W","X","Y","Z">>
Digits == <<"0","1","2","3","4","5","6","7","8","9">>

Range(s) == { s[i] : i \in 1..Len(s) }

IndexOf(c, s) == CHOOSE i \in 1..Len(s) : s[i] = c

\* String.prototype.toUpperCase / toLowerCase, one character
toUpperCaseChar(c) == IF c \in Range(Lowers) THEN Uppers[IndexOf(c, Lowers)] ELSE c
toLowerCaseChar(c) == IF c \in Range(Uppers) THEN Lowers[IndexOf(c, Uppers)] ELSE c

toUpperCase(s) == [i \in 1..Len(s) |-> toUpperCaseChar(s[i])]
toLowerCase(s) == [i \in 1..Len(s) |-> toLowerCaseChar(s[i])]

\* the regular-expression class \w
IsWordChar(c) == c \in Range(Lowers) \cup Range(Uppers) \cup Range(Digits) \cup {"_"}

\* the subsequence of s at the positions K, in order
SubseqAt(s, K) ==
  [i \in 1..Cardinality(K) |-> s[CHOOSE k \in K : Cardinality({j \in K : j < k}) = i - 1]]

RECURSIVE Flatten(_)
Flatten(ss) == IF ss = <<>> THEN <<>> ELSE Head(ss) \o Flatten(Tail(ss))

\* Array.prototype.join on strings
RECURSIVE Join(_, _)
Join(ss, sep) ==
  IF ss = <<>> THEN <<>>
  ELSE IF Len(ss) = 1 THEN ss[1]
  ELSE ss[1] \o sep \o Join(Tail(ss), sep)

\* String.prototype.includes
IsSubstring(needle, s) ==
  \E i \in 0..(Len(s) - Len(needle)) : SubSeq(s, i + 1, i + Len(needle)) = needle

\* String(n) for a non-negative integer
RECURSIVE NumToChars(_)
NumToChars(n) ==
  IF n < 10 THEN <<Digits[n + 1]>> ELSE NumToChars(n \div 10) \o <<Digits[(n % 10) + 1]>>

(***************************************************************************)
(* JavaScript values                                                        *)
(***************************************************************************)
Undefined == [t |-> "undefined"]
Null == [t |-> "null"]
JStr(s) == [t |-> "string", s |-> s]
JNum(n) == [t |-> "number", n |-> n]
JBool(b) == [t |-> "boolean", b |-> b]
JArr(items) == [t |-> "array", items |-> items]
\* an object with its keys in iteration order
JObj(keys, vals) == [t |-> "object", keys |-> keys, vals |-> vals]

IsNullish(v) == v.t \in {"undefined", "null"}

Truthy(v) ==
  CASE v.t = "undefined" -> FALSE
    [] v.t = "null" -> FALSE
    [] v.t = "string" -> Len(v.s) > 0
    [] v.t = "number" -> v.n # 0
    [] v.t = "boolean" -> v.b
    [] OTHER -> TRUE

\* v.k on a value that is not null or undefined
Get(v, k) ==
  IF v.t = "object" /\ k \in Range(v.keys) THEN v.vals[IndexOf(k, v.keys)] ELSE Undefined

\* a || b
OrElse(a, b) == IF Truthy(a) THEN a ELSE b

\* Object.entries(v) for a value that is not null or undefined
Entries(v) ==
  CASE v.t = "object" -> [i \in 1..Len(v.keys) |-> <<v.keys[i], v.vals[i]>>]
    [] v.t = "array" -> [i \in 1..Len(v.items) |-> <<NumToChars(i - 1), v.items[i]>>]
    [] v.t = "string" -> [i \in 1..Len(v.s) |-> <<NumToChars(i - 1), JStr(<<v.s[i]>>)>>]
    [] OTHER -> <<>>

\* Object.keys(v) for a value that is not null or undefined
Keys(v) == [i \in 1..Len(Entries(v)) |-> Entries(v)[i][1]]

\* String(v)
RECURSIVE ToStr(_)
ToStr(v) ==
  CASE v.t = "undefined" -> <<"u","n","d","e","f","i","n","e","d">>
    [] v.t = "null" -> <<"n","u","l","l">>
    [] v.t = "string" -> v.s
    [] v.t = "number" -> NumToChars(v.n)
    [] v.t = "boolean" -> IF v.b THEN <<"t","r","u","e">> ELSE <<"f","a","l","s","e">>
    [] v.t = "array" ->
         Join([i \in 1..Len(v.items) |->
                 IF IsNullish(v.items[i]) THEN <<>> ELSE ToStr(v.items[i])], <<",">>)
    [] OTHER -> <<"[","o","b","j","e","c","t"," ","O","b","j","e","c","t","]">>

(***************************************************************************)
(* Results of an operation: text, or a thrown error                         *)
(***************************************************************************)
NoResult == [status |-> "none", err |-> "", text |-> <<>>]
Ok(text) == [status |-> "ok", err |-> "", text |-> text]
Thrown(msg) == [status |-> "throw", err |-> msg, text |-> <<>>]

Tok(kind) == [k |-> kind]

Contains(text, tok) == \E i \in 1..Len(text) : text[i] = tok
ContainsKind(text, kind) == \E i \in 1..Len(text) : text[i].k = kind
OfKind(text, kind) == SelectSeq(text, LAMBDA x : x.k = kind)

(***************************************************************************)
(* Property names and type names the code looks up                          *)
(***************************************************************************)
K_startCommand == <<"s","t","a","r","t","C","o","m","m","a","n","d">>
K_configSchema == <<"c","o","n","f","i","g","S","c","h","e","m","a">>
K_properties == <<"p","r","o","p","e","r","t","i","e","s">>
K_required == <<"r","e","q","u","i","r","e","d">>
K_type == <<"t","y","p","e">>
K_default == <<"d","e","f","a","u","l","t">>
K_description == <<"d","e","s","c","r","i","p","t","i","o","n">>
S_string == <<"s","t","r","i","n","g">>
S_number == <<"n","u","m","b","e","r">>
S_integer == <<"i","n","t","e","g","e","r">>
S_boolean == <<"b","o","o","l","e","a","n">>
S_array == <<"a","r","r","a","y">>
S_object == <<"o","b","j","e","c","t">>

(***************************************************************************)
(* templates/utils.ts                                                       *)
(***************************************************************************)
\* The descriptor text is known by what YAML.parse makes of it: it throws
\* ("garbage"), or returns null for the empty document, or returns the value.
Absent == [kind |-> "absent"]
EmptyText == [kind |-> "empty"]
Garbage == [kind |-> "garbage"]
Doc(v) == [kind |-> "doc", doc |-> v]

\* truthiness of an optional string parameter
TextGiven(text) == text.kind \in {"garbage", "doc"}

YAMLparse(text) ==
  CASE text.kind = "garbage" -> Thrown("YAMLParseError")
    [] text.kind = "doc" -> [status |-> "ok", value |-> text.doc]
    [] OTHER -> [status |-> "ok", value |-> Null]

parseSmitheryYamlNoCatch(yamlContent) ==
  LET parsed == YAMLparse(yamlContent)
  IN  IF parsed.status = "throw" THEN parsed ELSE [status |-> "ok", value |-> parsed.value]

parseSmitheryYaml(yamlContent) ==
  LET parsed == YAMLparse(yamlContent)
  IN  IF parsed.status = "throw"
      THEN [status |-> "ok", value |-> Null]
      ELSE [status |-> "ok", value |-> parsed.value]

\* parsed?.startCommand?.configSchema
extractConfigSchemaFromSmitheryYaml(yamlContent) ==
  LET parsed == parseSmitheryYaml(yamlContent)
  IN  IF parsed.status = "throw" THEN parsed
      ELSE IF IsNullish(parsed.value) THEN [status |-> "ok", value |-> Undefined]
      ELSE LET sc == Get(parsed.value, K_startCommand)
           IN  IF IsNullish(sc) THEN [status |-> "ok", value |-> Undefined]
               ELSE [status |-> "ok", value |-> Get(sc, K_configSchema)]

\* sanitizeId without the replace(/-+/g, '-') step
sanitizeIdNoCollapse(name) ==
  LET lower == toLowerCase(name)
      dashed == [i \in 1..Len(lower) |->
                   IF lower[i] \in Range(Lowers) \cup Range(Digits) THEN lower[i] ELSE "-"]
  IN  SubseqAt(dashed,
        { i \in 1..Len(dashed) : ~(dashed[i] = "-" /\ (i = 1 \/ i = Len(dashed))) })

\* name.toLowerCase().replace(/[^a-z0-9]/g,'-').replace(/-+/g,'-').replace(/^-|-$/g,'')
sanitizeId(name) ==
  LET lower == toLowerCase(name)
      dashed == [i \in 1..Len(lower) |->
                   IF lower[i] \in Range(Lowers) \cup Range(Digits) THEN lower[i] ELSE "-"]
      collapsed == SubseqAt(dashed,
                     { i \in 1..Len(dashed) : ~(dashed[i] = "-" /\ i > 1 /\ dashed[i-1] = "-") })
  IN  SubseqAt(collapsed,
        { i \in 1..Len(collapsed) :
            ~(collapsed[i] = "-" /\ (i = 1 \/ i = Len(collapsed))) })

\* name.replace(/_/g, ' ').replace(/\b\w/g, l => l.toUpperCase())
TitleOf(name) ==
  LET spaced == [i \in 1..Len(name) |-> IF name[i] = "_" THEN " " ELSE name[i]]
  IN  [i \in 1..Len(spaced) |->
         IF IsWordChar(spaced[i]) /\ (i = 1 \/ ~IsWordChar(spaced[i-1]))
         THEN toUpperCaseChar(spaced[i]) ELSE spaced[i]]

StartsWith(s, prefix) == Len(s) >= Len(prefix) /\ SubSeq(s, 1, Len(prefix)) = prefix

HttpsPrefix == <<"h","t","t","p","s",":","/","/">>

\* description.replace(/"/g, '\\"')
EscapeQuotes(s) ==
  Flatten([i \in 1..Len(s) |-> IF s[i] = "\"" THEN <<"\\", "\"">> ELSE <<s[i]>>])

\* required.includes(key); only arrays and strings have the method
HasIncludes(required) == required.t \in {"array", "string"}
Includes(required, key) ==
  IF required.t = "array" THEN \E i \in 1..Len(required.items) : required.items[i] = JStr(key)
  ELSE IsSubstring(key, required.s)

ZodBuilder(prop) ==
  LET ty == Get(prop, K_type)
  IN  CASE ty = JStr(S_string) -> "z.string()"
        [] ty = JStr(S_number) -> "z.number()"
        [] ty = JStr(S_integer) -> "z.number().int()"
        [] ty = JStr(S_boolean) -> "z.boolean()"
        [] ty = JStr(S_array) -> "z.array(z.any())"
        [] ty = JStr(S_object) -> "z.record(z.any())"
        [] OTHER -> "z.unknown()"

\* the default literal: strings quoted, everything else String(default)
ZodDefaultLiteral(d) == IF d.t = "string" THEN <<"\"">> \o d.s \o <<"\"">> ELSE ToStr(d)

\* one property with .optional() decided by required alone
ZodPropertyOptionalByRequired(key, prop, required, indent) ==
  IF IsNullish(prop) THEN Thrown("TypeError")
  ELSE
    LET d == Get(prop, K_default)
        desc == Get(prop, K_description)
        modifier ==
          (IF d # Undefined THEN <<[p |-> ".default", arg |-> ZodDefaultLiteral(d)]>> ELSE <<>>)
          \o (IF HasIncludes(required) /\ ~Includes(required, key)
              THEN <<[p |-> ".optional()"]>> ELSE <<>>)
        describe ==
          IF Truthy(desc) THEN <<[p |-> ".describe", arg |-> EscapeQuotes(desc.s)]>> ELSE <<>>
    IN  IF d = Undefined /\ ~HasIncludes(required) THEN Thrown("TypeError")
        ELSE IF Truthy(desc) /\ desc.t # "string" THEN Thrown("TypeError")
        ELSE Ok(<<[k |-> "zodProperty", indent |-> indent, key |-> key,
                   zodType |-> <<[p |-> ZodBuilder(prop)]>> \o modifier \o describe]>>)

\* one property of generateZodSchemaFromJson: the line, or the TypeError
ZodProperty(key, prop, required, indent) ==
  IF IsNullish(prop) THEN Thrown("TypeError")
  ELSE
    LET d == Get(prop, K_default)
        desc == Get(prop, K_description)
        modifier ==
          IF d # Undefined THEN <<[p |-> ".default", arg |-> ZodDefaultLiteral(d)]>>
          ELSE IF ~Includes(required, key) THEN <<[p |-> ".optional()"]>>
          ELSE <<>>
        describe ==
          IF Truthy(desc) THEN <<[p |-> ".describe", arg |-> EscapeQuotes(desc.s)]>> ELSE <<>>
    IN  IF d = Undefined /\ ~HasIncludes(required) THEN Thrown("TypeError")
        ELSE IF Truthy(desc) /\ desc.t # "string" THEN Thrown("TypeError")
        ELSE Ok(<<[k |-> "zodProperty", indent |-> indent, key |-> key,
                   zodType |-> <<[p |-> ZodBuilder(prop)]>> \o modifier \o describe]>>)

\* the first failure of a sequence of results, or all their text in order
Collect(results) ==
  IF \E i \in 1..Len(results) : results[i].status = "throw"
  THEN results[CHOOSE i \in 1..Len(results) :
                 /\ results[i].status = "throw"
                 /\ \A j \in 1..(i-1) : results[j].status # "throw"]
  ELSE Ok(Flatten([i \in 1..Len(results) |-> results[i].text]))

generateZodSchemaFromJson(schema, indent) ==
  LET properties == OrElse(Get(schema, K_properties), JObj(<<>>, <<>>))
      required == OrElse(Get(schema, K_required), JArr(<<>>))
      entries == Entries(properties)
  IN  Collect([i \in 1..Len(entries) |->
                 ZodProperty(entries[i][1], entries[i][2], required, indent)])

EnvForm(prop) ==
  LET ty == Get(prop, K_type)
  IN  IF ty = JStr(S_boolean) THEN "=== 'true'"
      ELSE IF ty = JStr(S_number) \/ ty = JStr(S_integer) THEN "? Number(...) : undefined"
      ELSE "raw"

EnvLineKeyAsIs(key, prop) ==
  IF IsNullish(prop) THEN Thrown("TypeError")
  ELSE Ok(<<[k |-> "envConfigLine", key |-> key, envVar |-> key, form |-> EnvForm(prop)]>>)

\* one entry of the configLines map: the line, or the TypeError
EnvLine(key, prop) ==
  IF IsNullish(prop) THEN Thrown("TypeError")
  ELSE Ok(<<[k |-> "envConfigLine", key |-> key, envVar |-> toUpperCase(key),
             form |-> EnvForm(prop)]>>)

generateEnvConfigParsing(configSchema) ==
  IF ~Truthy(configSchema) \/ ~Truthy(Get(configSchema, K_properties))
  THEN Ok(<<Tok("const config = {};")>>)
  ELSE
    LET entries == Entries(Get(configSchema, K_properties))
        configLines == Collect([i \in 1..Len(entries) |-> EnvLine(entries[i][1], entries[i][2])])
    IN  IF configLines.status = "throw" THEN configLines
        ELSE Ok(<<Tok("const config = configSchema.parse({")>> \o configLines.text
                \o <<Tok("});")>>)

generateServerReturn == <<Tok("return server.server;")>>

\* generateResourcesCode: the first resource registered, the rest as comments
generateResourcesCode(resources) ==
  IF Len(resources) = 0 THEN Ok(<<Tok("// No resources to register")>>)
  ELSE
    LET firstResource == resources[1]
        mimeType == IF firstResource.mimeType # "" THEN firstResource.mimeType ELSE "text/plain"
        isHttpsUrl == StartsWith(firstResource.uri, HttpsPrefix)
        resourcesCode ==
          <<[k |-> "server.registerResource", id |-> sanitizeId(firstResource.name),
             name |-> firstResource.name, uri |-> firstResource.uri,
             description |-> firstResource.description, mimeType |-> mimeType,
             body |-> IF isHttpsUrl THEN "fetch(uri.href)" ELSE "TODO stub"]>>
        remainingResources ==
          [i \in 1..(Len(resources) - 1) |->
             [k |-> "// TODO: Register resource", name |-> resources[i+1].name,
              description |-> resources[i+1].description, uri |-> resources[i+1].uri]]
    IN  Ok(<<Tok("// Register resources")>> \o resourcesCode
           \o (IF Len(resources) > 1
               THEN <<Tok("// Additional resources to implement:")>> \o remainingResources
               ELSE <<>>))

\* generatePromptsCode: the first prompt registered, the rest as comments
generatePromptsCode(prompts) ==
  IF Len(prompts) = 0 THEN Ok(<<Tok("// No prompts to register")>>)
  ELSE
    LET firstPrompt == prompts[1]
        argsSchema ==
          IF Truthy(firstPrompt.argsSchema)
          THEN generateZodSchemaFromJson(firstPrompt.argsSchema, 8)
          ELSE Ok(<<>>)
        remainingPrompts ==
          [i \in 1..(Len(prompts) - 1) |->
             [k |-> "// TODO: Register prompt", name |-> prompts[i+1].name,
              description |-> prompts[i+1].description]]
    IN  IF argsSchema.status = "throw" THEN argsSchema
        ELSE Ok(<<Tok("// Register prompts"),
                  [k |-> "server.registerPrompt", name |-> firstPrompt.name,
                   title |-> TitleOf(firstPrompt.name),
                   description |-> firstPrompt.description,
                   argsSchema |-> argsSchema.text,
                   text |-> IF firstPrompt.template # "" THEN firstPrompt.template
                            ELSE "Prompt template here"]>>
                \o (IF Len(prompts) > 1
                    THEN <<Tok("// Additional prompts to implement:")>> \o remainingPrompts
                    ELSE <<>>))

\* hasConfig read as "the schema declares at least one property"
HasKeysOfProperties(configSchema) ==
  /\ Truthy(configSchema)
  /\ Truthy(Get(configSchema, K_properties))
  /\ Len(Keys(Get(configSchema, K_properties))) > 0

\* configSchema && Object.keys(configSchema).length > 0
HasKeys(configSchema) == Truthy(configSchema) /\ Len(Keys(configSchema)) > 0

(***************************************************************************)
(* templates/smithery-cli-template.ts                                       *)
(***************************************************************************)
generateImports(includeBackwardCompatibility) ==
  <<Tok("import { McpServer }"), Tok("import { z }")>>
  \o (IF includeBackwardCompatibility THEN <<Tok("import { StdioServerTransport }")>> ELSE <<>>)

generateConfigSchema(actualConfigSchema) ==
  IF HasKeys(actualConfigSchema)
  THEN LET schemaString == generateZodSchemaFromJson(actualConfigSchema, 2)
       IN  IF schemaString.status = "throw" THEN schemaString
           ELSE Ok(<<Tok("// Configuration schema extracted from your existing server"),
                     Tok("export const configSchema = z.object({")>>
                   \o schemaString.text \o <<Tok("});")>>)
  ELSE Ok(<<Tok("// Configuration schema for smithery.yaml"),
            Tok("export const configSchema = z.object({});")>>)

generateServerCreation(serverName, serverVersion) ==
  <<[k |-> "const server = new McpServer", name |-> serverName, version |-> serverVersion]>>

\* one server.registerTool(...) block
RegisterTool(tool, inputSchema, hasConfig, handlerArg) ==
  [k |-> "server.registerTool", name |-> tool.name, title |-> TitleOf(tool.name),
   description |-> tool.description, inputSchema |-> inputSchema,
   configComment |-> hasConfig, configLog |-> hasConfig, handlerArg |-> handlerArg]

ToolInputSchema(tool) ==
  IF Truthy(tool.inputSchema) THEN generateZodSchemaFromJson(tool.inputSchema, 8) ELSE Ok(<<>>)

\* the remaining tools of the CLI template, one comment line each
RemainingTools(tools) ==
  [i \in 1..(Len(tools) - 1) |->
     [k |-> "// TODO: Register tool", name |-> tools[i+1].name,
      description |-> tools[i+1].description]]

\* generateToolsCode: the first tool registered, the rest as comments
generateToolsCode(tools, hasConfig) ==
  IF Len(tools) = 0 THEN Ok(<<Tok("// No tools to register")>>)
  ELSE
    LET firstTool == tools[1]
        inputSchema == ToolInputSchema(firstTool)
    IN  IF inputSchema.status = "throw" THEN inputSchema
        ELSE Ok(<<Tok("// Register tools"),
                  RegisterTool(firstTool, inputSchema.text, hasConfig, "request")>>
                \o (IF Len(tools) > 1
                    THEN <<Tok("// Additional tools to implement:")>> \o RemainingTools(tools)
                    ELSE <<>>))

generateBackwardsCompatibilityCode(configSchema) ==
  LET configParsing == generateEnvConfigParsing(configSchema)
  IN  IF configParsing.status = "throw" THEN configParsing
      ELSE Ok(<<Tok("// STDIO backwards compatibility - only runs when executed directly"),
                Tok("async function main() {")>>
              \o configParsing.text
              \o <<Tok("const server = createServer({ config });"),
                   Tok("const transport = new StdioServerTransport();"),
                   Tok("await server.connect(transport);"),
                   Tok("console.error(MCP Server running in stdio mode);"),
                   Tok("}"),
                   Tok("main().catch(...)")>>)

CreateServerWithConfig ==
  Tok("export default function createServer({ config }: { config: z.infer<typeof configSchema> }) {")
CreateServerNoConfig == Tok("export default function createServer() {")

generateIndexTsTemplateGated(params) ==
  LET configSchema == params.configSchema
      configSchemaCode == IF HasKeys(configSchema) THEN generateConfigSchema(configSchema)
                          ELSE Ok(<<>>)
      backwardsCompatibilityCode ==
        IF params.includeBackwardCompatibility THEN generateBackwardsCompatibilityCode(configSchema)
        ELSE Ok(<<>>)
  IN  Collect(<<Ok(generateImports(params.includeBackwardCompatibility)),
                configSchemaCode,
                Ok(<<IF HasKeys(configSchema) THEN CreateServerWithConfig ELSE CreateServerNoConfig>>),
                Ok(generateServerCreation(params.serverName, params.serverVersion)),
                generateResourcesCode(params.resources),
                generateToolsCode(params.tools, HasKeys(configSchema)),
                generatePromptsCode(params.prompts),
                Ok(generateServerReturn),
                Ok(<<Tok("}")>>),
                backwardsCompatibilityCode>>)

generateIndexTsTemplate(params) ==
  LET configSchema == params.configSchema
      configSchemaCode == IF HasKeys(configSchema) THEN generateConfigSchema(configSchema)
                          ELSE Ok(<<>>)
      backwardsCompatibilityCode ==
        IF params.includeBackwardCompatibility THEN generateBackwardsCompatibilityCode(configSchema)
        ELSE Ok(<<>>)
  IN  Collect(<<Ok(generateImports(params.includeBackwardCompatibility)),
                IF configSchemaCode.status = "ok" /\ configSchemaCode.text = <<>>
                THEN Ok(<<Tok("// Configuration schema for smithery.yaml"),
                          Tok("export const configSchema = z.object({});")>>)
                ELSE configSchemaCode,
                Ok(<<CreateServerWithConfig>>),
                Ok(generateServerCreation(params.serverName, params.serverVersion)),
                generateResourcesCode(params.resources),
                generateToolsCode(params.tools, HasKeys(configSchema)),
                generatePromptsCode(params.prompts),
                Ok(generateServerReturn),
                Ok(<<Tok("}")>>),
                backwardsCompatibilityCode>>)

\* smitheryYaml ? extractConfigSchemaFromSmitheryYaml(smitheryYaml) : undefined
ExtractedConfigSchema(params) ==
  IF TextGiven(params.smitheryYaml)
  THEN extractConfigSchemaFromSmitheryYaml(params.smitheryYaml)
  ELSE [status |-> "ok", value |-> Undefined]

\* the generator's parameters with the extracted schema in place of the text
WithConfigSchema(params, configSchema) ==
  [tools |-> params.tools, prompts |-> params.prompts, resources |-> params.resources,
   serverName |-> params.serverName, serverVersion |-> params.serverVersion,
   includeBackwardCompatibility |-> params.includeBackwardCompatibility,
   configSchema |-> configSchema]

generateSmitheryCliMigration(params) ==
  LET extractedConfigSchema == ExtractedConfigSchema(params)
  IN  IF extractedConfigSchema.status = "throw" THEN extractedConfigSchema
      ELSE generateIndexTsTemplate(WithConfigSchema(params, extractedConfigSchema.value))

(***************************************************************************)
(* templates/custom-container-template.ts                                   *)
(***************************************************************************)
generateCustomContainerImportsAlways(includeBackwardCompatibility) ==
  <<Tok("import express"), Tok("import cors"), Tok("import { McpServer }"),
    Tok("import { StreamableHTTPServerTransport }"), Tok("import { z }"),
    Tok("import { StdioServerTransport }")>>

generateCustomContainerImports(includeBackwardCompatibility) ==
  <<Tok("import express"), Tok("import cors"), Tok("import { McpServer }"),
    Tok("import { StreamableHTTPServerTransport }"), Tok("import { z }")>>
  \o (IF includeBackwardCompatibility THEN <<Tok("import { StdioServerTransport }")>> ELSE <<>>)

generateExpressSetup ==
  <<Tok("const app = express();"), Tok("const PORT = process.env.PORT || 8081;"),
    Tok("app.use(cors(...));"), Tok("app.use(express.json());")>>

generateCustomContainerConfigSchema(actualConfigSchema) ==
  IF HasKeys(actualConfigSchema)
  THEN LET schemaString == generateZodSchemaFromJson(actualConfigSchema, 2)
       IN  IF schemaString.status = "throw" THEN schemaString
           ELSE Ok(<<Tok("// Configuration schema extracted from your existing server"),
                     Tok("export const configSchema = z.object({")>>
                   \o schemaString.text \o <<Tok("});")>>)
  ELSE Ok(<<Tok("// Configuration schema for custom container"),
            Tok("export const configSchema = z.object({});")>>)

generateConfigFunctions == <<Tok("function parseConfig(req: Request) {...}")>>

generateCustomContainerServerCreation(serverName, serverVersion) ==
  <<[k |-> "const server = new McpServer", name |-> serverName, version |-> serverVersion]>>

generateCustomContainerToolsCodeFirstOnly(tools, hasConfig) ==
  IF Len(tools) = 0 THEN Ok(<<Tok("// No tools to register")>>)
  ELSE
    LET inputSchema == ToolInputSchema(tools[1])
    IN  IF inputSchema.status = "throw" THEN inputSchema
        ELSE Ok(<<Tok("// Register tools"),
                  RegisterTool(tools[1], inputSchema.text, hasConfig, "params")>>
                \o (IF Len(tools) > 1
                    THEN <<Tok("// Additional tools to implement:")>> \o RemainingTools(tools)
                    ELSE <<>>))

\* generateCustomContainerToolsCode: tools.map registers every tool
generateCustomContainerToolsCode(tools, hasConfig) ==
  IF Len(tools) = 0 THEN Ok(<<Tok("// No tools to register")>>)
  ELSE
    LET blocks == [i \in 1..Len(tools) |->
                     LET inputSchema == ToolInputSchema(tools[i])
                     IN  IF inputSchema.status = "throw" THEN inputSchema
                         ELSE Ok(<<RegisterTool(tools[i], inputSchema.text, hasConfig, "params")>>)]
        toolsCode == Collect(blocks)
    IN  IF toolsCode.status = "throw" THEN toolsCode
        ELSE Ok(<<Tok("// Register tools")>> \o toolsCode.text)

\* the handler with the close listener registered after the awaits
generateMcpRequestHandlerListenerLast(hasConfig) ==
  <<Tok("app.all('/mcp', async (req, res) => {"), Tok("try {")>>
  \o (IF hasConfig
      THEN <<Tok("const rawConfig = parseConfig(req);"),
             Tok("const config = configSchema.parse(rawConfig);"),
             Tok("const server = createServer({ config });")>>
      ELSE <<Tok("const server = createServer();")>>)
  \o <<Tok("const transport = new StreamableHTTPServerTransport(...);"),
       Tok("await server.connect(transport);"),
       Tok("await transport.handleRequest(req, res, req.body);"),
       Tok("res.on('close', () => { transport.close(); server.close(); });"),
       Tok("} catch (error) {"),
       Tok("if (!res.headersSent) res.status(500).json(...)"),
       Tok("}"),
       Tok("});")>>

generateMcpRequestHandler(hasConfig) ==
  <<Tok("app.all('/mcp', async (req, res) => {"), Tok("try {")>>
  \o (IF hasConfig
      THEN <<Tok("const rawConfig = parseConfig(req);"),
             Tok("const config = configSchema.parse(rawConfig);"),
             Tok("const server = createServer({ config });")>>
      ELSE <<Tok("const server = createServer();")>>)
  \o <<Tok("const transport = new StreamableHTTPServerTransport(...);"),
       Tok("res.on('close', () => { transport.close(); server.close(); });"),
       Tok("await server.connect(transport);"),
       Tok("await transport.handleRequest(req, res, req.body);"),
       Tok("} catch (error) {"),
       Tok("if (!res.headersSent) res.status(500).json(...)"),
       Tok("}"),
       Tok("});")>>

MainHttpOnly ==
  <<Tok("// Main function to start the HTTP server"),
    Tok("async function main() {"),
    Tok("app.listen(PORT, ...);"),
    Tok("}"),
    Tok("main().catch(...)")>>

generateCustomContainerMainFunctionBranching(includeBackwardCompatibility, hasConfig, configSchema) ==
  Ok(<<Tok("async function main() {"),
       Tok("const transport = process.env.TRANSPORT || 'stdio';"),
       Tok("if (transport === 'http') {"),
       Tok("app.listen(PORT, ...);"),
       Tok("} else {"),
       Tok("console.error(STDIO mode not enabled);"),
       Tok("process.exit(1);"),
       Tok("}"),
       Tok("}"),
       Tok("main().catch(...)")>>)

generateCustomContainerMainFunction(includeBackwardCompatibility, hasConfig, configSchema) ==
  IF ~includeBackwardCompatibility THEN Ok(MainHttpOnly)
  ELSE
    LET head == <<Tok("// Main function to start the server in the appropriate mode"),
                  Tok("async function main() {"),
                  Tok("const transport = process.env.TRANSPORT || 'stdio';"),
                  Tok("if (transport === 'http') {"),
                  Tok("app.listen(PORT, ...);")>>
        stdio == <<Tok("const stdioTransport = new StdioServerTransport();"),
                   Tok("await server.connect(stdioTransport);"),
                   Tok("console.error(MCP Server running in stdio mode);"),
                   Tok("}")>>
        configParsing == generateEnvConfigParsing(configSchema)
        else ==
          IF includeBackwardCompatibility
          THEN IF hasConfig
               THEN IF configParsing.status = "throw" THEN configParsing
                    ELSE Ok(<<Tok("} else {")>> \o configParsing.text
                            \o <<Tok("const server = createServer({ config });")>> \o stdio)
               ELSE Ok(<<Tok("} else {"), Tok("const server = createServer();")>> \o stdio)
          ELSE Ok(<<Tok("} else {"), Tok("console.error(STDIO mode not enabled);"),
                    Tok("process.exit(1);"), Tok("}")>>)
    IN  IF else.status = "throw" THEN else
        ELSE Ok(head \o else.text \o <<Tok("}"), Tok("main().catch(...)")>>)

generateCustomContainerTemplateAlwaysConfig(params) ==
  LET configSchema == params.configSchema
      configSchemaCode == generateCustomContainerConfigSchema(configSchema)
  IN  Collect(<<Ok(generateCustomContainerImports(params.includeBackwardCompatibility)),
                Ok(generateExpressSetup),
                configSchemaCode,
                Ok(generateConfigFunctions),
                Ok(<<CreateServerWithConfig>>),
                Ok(generateCustomContainerServerCreation(params.serverName, params.serverVersion)),
                generateResourcesCode(params.resources),
                generateCustomContainerToolsCode(params.tools, HasKeys(configSchema)),
                generatePromptsCode(params.prompts),
                Ok(generateServerReturn),
                Ok(<<Tok("}")>>),
                Ok(generateMcpRequestHandler(TRUE)),
                generateCustomContainerMainFunction(params.includeBackwardCompatibility,
                                                    TRUE, configSchema)>>)

generateCustomContainerTemplate(params) ==
  LET configSchema == params.configSchema
      configSchemaCode == IF HasKeys(configSchema)
                          THEN generateCustomContainerConfigSchema(configSchema)
                          ELSE Ok(<<>>)
      \* !!configSchemaCode
      hasConfigCode == configSchemaCode.status = "ok" /\ configSchemaCode.text # <<>>
  IN  IF configSchemaCode.status = "throw" THEN configSchemaCode
      ELSE
      Collect(<<Ok(generateCustomContainerImports(params.includeBackwardCompatibility)),
                Ok(generateExpressSetup),
                configSchemaCode,
                Ok(IF hasConfigCode THEN generateConfigFunctions ELSE <<>>),
                Ok(<<IF hasConfigCode THEN CreateServerWithConfig ELSE CreateServerNoConfig>>),
                Ok(generateCustomContainerServerCreation(params.serverName, params.serverVersion)),
                generateResourcesCode(params.resources),
                generateCustomContainerToolsCode(params.tools, HasKeys(configSchema)),
                generatePromptsCode(params.prompts),
                Ok(generateServerReturn),
                Ok(<<Tok("}")>>),
                Ok(generateMcpRequestHandler(hasConfigCode)),
                generateCustomContainerMainFunction(params.includeBackwardCompatibility,
                                                    hasConfigCode, configSchema)>>)

generateCustomContainerMigration(params) ==
  LET extractedConfigSchema == ExtractedConfigSchema(params)
  IN  IF extractedConfigSchema.status = "throw" THEN extractedConfigSchema
      ELSE generateCustomContainerTemplate(WithConfigSchema(params, extractedConfigSchema.value))

(***************************************************************************)
(* templates/python-custom-container-template.ts                            *)
(***************************************************************************)
generatePythonImports(includeBackwardCompatibility) ==
  <<Tok("# src/main.py"), Tok("import os"), Tok("import uvicorn"),
    Tok("from mcp.server.fastmcp import FastMCP"),
    Tok("from starlette.middleware.cors import CORSMiddleware"),
    Tok("from typing import Optional")>>
  \o (IF includeBackwardCompatibility THEN <<Tok("import contextvars")>> ELSE <<>>)

generateServerInit(serverName) == <<[k |-> "mcp = FastMCP", name |-> serverName]>>

generatePythonConfigFunctions ==
  <<Tok("def get_request_config() -> dict:"), Tok("def get_config_value(key: str, default=None):")>>

\* sanitizeId(name).replace(/-/g, '_')
PythonFunctionName(name) ==
  LET id == sanitizeId(name) IN [i \in 1..Len(id) |-> IF id[i] = "-" THEN "_" ELSE id[i]]

\* prop.replace(/([A-Z])/g, '_$1')
UnderscoreCapitals(prop) ==
  Flatten([i \in 1..Len(prop) |->
             IF prop[i] \in Range(Uppers) THEN <<"_", prop[i]>> ELSE <<prop[i]>>])

PythonDefault(propSchema) ==
  LET d == Get(propSchema, K_default)
  IN  IF d # Undefined
      THEN (IF d.t = "string" THEN <<"\"">> \o d.s \o <<"\"">> ELSE ToStr(d))
      ELSE <<"N","o","n","e">>

\* the config access block of one tool: the lines, or the TypeError
PythonConfigAccess(configSchema) ==
  IF Truthy(configSchema) /\ Truthy(Get(configSchema, K_properties))
  THEN
    LET entries == Entries(Get(configSchema, K_properties))
        httpConfigCode ==
          Collect([i \in 1..Len(entries) |->
            IF IsNullish(entries[i][2]) THEN Thrown("TypeError")
            ELSE Ok(<<[k |-> "= get_config_value",
                       var |-> toLowerCase(UnderscoreCapitals(entries[i][1])),
                       prop |-> entries[i][1],
                       default |-> PythonDefault(entries[i][2])]>>)])
        envVarCode ==
          [i \in 1..Len(entries) |->
             [k |-> "# = os.getenv",
              var |-> toLowerCase(UnderscoreCapitals(entries[i][1])),
              envVar |-> toUpperCase(UnderscoreCapitals(entries[i][1])),
              default |-> PythonDefault(entries[i][2])]]
    IN  IF httpConfigCode.status = "throw" THEN httpConfigCode
        ELSE IF httpConfigCode.text # <<>>
        THEN Ok(<<Tok("# Get config values")>> \o httpConfigCode.text \o envVarCode
                \o <<Tok("# TODO: Add your validation logic here using the config values")>>)
        ELSE Ok(<<>>)
  ELSE Ok(<<Tok("# Get config values"),
            Tok("# No config schema provided - add your config access here if needed")>>)

PythonTool(tool, configSchema) ==
  LET configAccessCode == PythonConfigAccess(configSchema)
  IN  IF configAccessCode.status = "throw" THEN configAccessCode
      ELSE Ok(<<[k |-> "@mcp.tool()", name |-> tool.name,
                 functionName |-> PythonFunctionName(tool.name),
                 description |-> tool.description,
                 configAccessCode |-> configAccessCode.text]>>)

\* generatePythonToolsCode: tools.map registers every tool
generatePythonToolsCode(tools, configSchema) ==
  IF Len(tools) = 0 THEN Ok(<<Tok("# No tools to register")>>)
  ELSE
    LET toolsCode == Collect([i \in 1..Len(tools) |-> PythonTool(tools[i], configSchema)])
    IN  IF toolsCode.status = "throw" THEN toolsCode
        ELSE Ok(<<Tok("# Register tools")>> \o toolsCode.text)

generatePythonPromptsCode(prompts) ==
  IF Len(prompts) = 0 THEN <<Tok("# No prompts to register")>>
  ELSE <<Tok("# Register prompts")>>
       \o [i \in 1..Len(prompts) |->
             [k |-> "@mcp.prompt()", name |-> prompts[i].name,
              functionName |-> PythonFunctionName(prompts[i].name),
              description |-> prompts[i].description,
              text |-> IF prompts[i].template # "" THEN prompts[i].template
                       ELSE "Prompt template here"]]

generatePythonResourcesCode(resources) ==
  IF Len(resources) = 0 THEN <<Tok("# No resources to register")>>
  ELSE <<Tok("# Register resources")>>
       \o [i \in 1..Len(resources) |->
             [k |-> "@mcp.resource", name |-> resources[i].name, uri |-> resources[i].uri,
              functionName |-> PythonFunctionName(resources[i].name),
              description |-> resources[i].description,
              body |-> IF StartsWith(resources[i].uri, HttpsPrefix)
                       THEN "requests.get" ELSE "TODO stub"]]

\* the HTTP startup lines shared by both shapes of main()
PythonHttpStartup(hasConfig) ==
  <<Tok("print(MCP Server starting in HTTP mode...)"),
    Tok("app = mcp.streamable_http_app()"),
    Tok("app.add_middleware(CORSMiddleware, ...)")>>
  \o (IF hasConfig THEN <<Tok("app = SmitheryConfigMiddleware(app)")>> ELSE <<>>)
  \o <<Tok("port = int(os.environ.get(PORT, 8081))"),
       Tok("uvicorn.run(app, host=0.0.0.0, port=port, log_level=debug)")>>

generatePythonMainFunction(includeBackwardCompatibility, hasConfig) ==
  IF includeBackwardCompatibility
  THEN <<Tok("def main():"),
         Tok("transport_mode = os.getenv(TRANSPORT, stdio)"),
         Tok("if transport_mode == http:")>>
       \o PythonHttpStartup(hasConfig)
       \o <<Tok("else:"),
            Tok("print(MCP Server starting in stdio mode...)"),
            Tok("mcp.run()"),
            Tok("if __name__ == __main__: main()")>>
  ELSE <<Tok("def main():")>> \o PythonHttpStartup(hasConfig)
       \o <<Tok("if __name__ == __main__: main()")>>

generateMiddleware ==
  <<Tok("# src/middleware.py - Custom middleware for Smithery configuration"),
    Tok("class SmitheryConfigMiddleware:"),
    Tok("scope['smithery_config'] = config")>>

generatePythonTemplate(params) ==
  LET configSchema == params.configSchema
      configFunctions == IF HasKeys(configSchema) THEN generatePythonConfigFunctions ELSE <<>>
      middleware == IF HasKeys(configSchema) THEN generateMiddleware ELSE <<>>
  IN  Collect(<<Ok(generatePythonImports(params.includeBackwardCompatibility)),
                Ok(generateServerInit(params.serverName)),
                Ok(configFunctions),
                generatePythonToolsCode(params.tools, configSchema),
                Ok(generatePythonPromptsCode(params.prompts)),
                Ok(generatePythonResourcesCode(params.resources)),
                Ok(generatePythonMainFunction(params.includeBackwardCompatibility,
                                              HasKeys(configSchema))),
                Ok(middleware)>>)

generatePythonCustomContainerMigration(params) ==
  LET extractedConfigSchema == ExtractedConfigSchema(params)
  IN  IF extractedConfigSchema.status = "throw" THEN extractedConfigSchema
      ELSE generatePythonTemplate(WithConfigSchema(params, extractedConfigSchema.value))

(***************************************************************************)
(* templates/index.ts                                                       *)
(***************************************************************************)
generateMigrationTemplate(params, migrationMode) ==
  CASE migrationMode = "ts-smithery-cli" -> generateSmitheryCliMigration(params)
    [] migrationMode = "ts-custom-container" -> generateCustomContainerMigration(params)
    [] migrationMode = "py-custom-container" -> generatePythonCustomContainerMigration(params)
    [] OTHER -> Thrown("Unsupported migration mode")

getFileExtension(migrationMode) ==
  CASE migrationMode \in {"ts-smithery-cli", "ts-custom-container"} -> "ts"
    [] migrationMode = "py-custom-container" -> "py"
    [] OTHER -> "txt"

getMigrationModeDescription(migrationMode) ==
  CASE migrationMode = "ts-smithery-cli" -> "TypeScript with Smithery CLI"
    [] migrationMode = "ts-custom-container" -> "TypeScript Custom Container"
    [] migrationMode = "py-custom-container" -> "Python Custom Container"
    [] OTHER -> "Unknown migration mode"

(***************************************************************************)
(* smithery-yaml-generator.ts                                               *)
(***************************************************************************)
K_runtime == <<"r","u","n","t","i","m","e">>
K_build == <<"b","u","i","l","d">>
K_env == <<"e","n","v">>
K_dockerfile == <<"d","o","c","k","e","r","f","i","l","e">>
K_dockerBuildPath == <<"d","o","c","k","e","r","B","u","i","l","d","P","a","t","h">>
K_commandFunction == <<"c","o","m","m","a","n","d","F","u","n","c","t","i","o","n">>
K_exampleConfig == <<"e","x","a","m","p","l","e","C","o","n","f","i","g">>
S_typescript == <<"t","y","p","e","s","c","r","i","p","t">>
S_container == <<"c","o","n","t","a","i","n","e","r">>
S_stdio == <<"s","t","d","i","o">>
S_http == <<"h","t","t","p">>

\* obj[key] = value: a new key goes last, an existing key keeps its place
Put(obj, key, value) ==
  IF key \in Range(obj.keys)
  THEN JObj(obj.keys, [obj.vals EXCEPT ![IndexOf(key, obj.keys)] = value])
  ELSE JObj(Append(obj.keys, key), Append(obj.vals, value))

\* the characters of a JSON string literal
JsonQuote(s) ==
  <<"\"">> \o Flatten([i \in 1..Len(s) |->
                         IF s[i] \in {"\"", "\\"} THEN <<"\\", s[i]>> ELSE <<s[i]>>]) \o <<"\"">>

\* JSON.stringify(v)
RECURSIVE JSONstringify(_)
JSONstringify(v) ==
  CASE v.t = "undefined" -> <<"u","n","d","e","f","i","n","e","d">>
    [] v.t = "null" -> <<"n","u","l","l">>
    [] v.t = "string" -> JsonQuote(v.s)
    [] v.t = "number" -> NumToChars(v.n)
    [] v.t = "boolean" -> ToStr(v)
    [] v.t = "array" ->
         <<"[">> \o Join([i \in 1..Len(v.items) |->
                            IF v.items[i].t = "undefined" THEN <<"n","u","l","l">>
                            ELSE JSONstringify(v.items[i])], <<",">>) \o <<"]">>
    [] OTHER ->
         LET kept == SelectSeq(Entries(v), LAMBDA e : e[2].t # "undefined")
         IN  <<"{">> \o Join([i \in 1..Len(kept) |->
                                JsonQuote(kept[i][1]) \o <<":">> \o JSONstringify(kept[i][2])],
                             <<",">>) \o <<"}">>

\* one line of the emitted YAML: a key at an indent with its rendered value
\* (no value on the line that opens a block)
Field(indent, key, value) == [k |-> "field", indent |-> indent, key |-> key, value |-> value]
Block(indent, key) == [k |-> "block", indent |-> indent, key |-> key]
Item(indent, value) == [k |-> "item", indent |-> indent, value |-> value]

\* utils.ts formatObjectAsYaml
RECURSIVE formatObjectAsYaml(_, _)
formatObjectAsYaml(obj, indent) ==
  IF obj.t \notin {"object", "array"}
  THEN <<[k |-> "literal", indent |-> indent, value |-> JSONstringify(obj)]>>
  ELSE
    LET entries == Entries(obj)
    IN  Flatten([i \in 1..Len(entries) |->
          LET key == entries[i][1]
              value == entries[i][2]
          IN  IF value.t = "object"
              THEN <<Block(indent, key)>> \o formatObjectAsYaml(value, indent + 2)
              ELSE IF value.t = "array"
              THEN <<Block(indent, key)>>
                   \o [j \in 1..Len(value.items) |-> Item(indent + 2, JSONstringify(value.items[j]))]
              ELSE <<Field(indent, key, JSONstringify(value))>>])

\* s.split('\n')
SplitLines(s) ==
  LET breaks == { i \in 1..Len(s) : s[i] = "\n" }
      bounds == <<0>> \o SubseqAt([i \in 1..Len(s) |-> i], breaks) \o <<Len(s) + 1>>
  IN  [n \in 1..(Cardinality(breaks) + 1) |-> SubSeq(s, bounds[n] + 1, bounds[n+1] - 1)]

\* the startCommand block of the YAML text
StartCommandYaml(startCommand) ==
  LET commandFunction == Get(startCommand, K_commandFunction)
      configSchema == Get(startCommand, K_configSchema)
      exampleConfig == Get(startCommand, K_exampleConfig)
  IN  <<Block(0, K_startCommand),
        Field(2, K_type, <<"\"">> \o ToStr(Get(startCommand, K_type)) \o <<"\"">>)>>
      \o (IF Truthy(commandFunction)
          THEN <<Block(2, K_commandFunction), Tok("|-")>>
               \o [i \in 1..Len(SplitLines(commandFunction.s)) |->
                     [k |-> "commandFunction line", indent |-> 4,
                      line |-> SplitLines(commandFunction.s)[i]]]
          ELSE <<>>)
      \o (IF configSchema # Undefined
          THEN <<Tok("# JSON Schema defining the configuration options for the MCP."),
                 Block(2, K_configSchema)>>
               \o (IF Len(Keys(configSchema)) = 0 THEN <<[k |-> "{}", indent |-> 4]>>
                   ELSE formatObjectAsYaml(configSchema, 4))
          ELSE <<>>)
      \o (IF exampleConfig # Undefined
          THEN <<Block(2, K_exampleConfig)>>
               \o (IF Len(Keys(exampleConfig)) = 0 THEN <<[k |-> "{}", indent |-> 4]>>
                   ELSE formatObjectAsYaml(exampleConfig, 4))
          ELSE <<>>)

BuildYaml(build) ==
  <<Block(0, K_build)>>
  \o (IF Truthy(Get(build, K_dockerfile))
      THEN <<Field(2, K_dockerfile, <<"\"">> \o Get(build, K_dockerfile).s \o <<"\"">>)>>
      ELSE <<>>)
  \o (IF Truthy(Get(build, K_dockerBuildPath))
      THEN <<Field(2, K_dockerBuildPath, <<"\"">> \o Get(build, K_dockerBuildPath).s \o <<"\"">>)>>
      ELSE <<>>)

EnvYaml(env) ==
  <<Block(0, K_env)>>
  \o [i \in 1..Len(Entries(env)) |->
        Field(2, Entries(env)[i][1], <<"\"">> \o ToStr(Entries(env)[i][2]) \o <<"\"">>)]

\* yamlContent with runtime and build written for a local-only stdio server too
YamlContentAlwaysRuntime(params) ==
  LET isLocalOnlyStdio == params.startCommandType = JStr(S_stdio) /\ Truthy(params.commandFunction)
      c0 == JObj(<<>>, <<>>)
      c1 == IF params.runtime = JStr(S_typescript)
            THEN LET r == Put(c0, K_runtime, JStr(S_typescript))
                 IN  IF Truthy(params.env) THEN Put(r, K_env, params.env) ELSE r
            ELSE LET r == IF Truthy(params.runtime) THEN Put(c0, K_runtime, params.runtime) ELSE c0
                     b0 == JObj(<<>>, <<>>)
                     b1 == IF Truthy(params.dockerfile) THEN Put(b0, K_dockerfile, params.dockerfile) ELSE b0
                     b2 == IF Truthy(params.dockerBuildPath)
                           THEN Put(b1, K_dockerBuildPath, params.dockerBuildPath) ELSE b1
                 IN  IF Truthy(params.dockerfile) \/ Truthy(params.dockerBuildPath)
                     THEN Put(r, K_build, b2) ELSE r
      s0 == JObj(<<K_type>>, <<params.startCommandType>>)
      s1 == IF isLocalOnlyStdio THEN Put(s0, K_commandFunction, params.commandFunction) ELSE s0
      s2 == Put(s1, K_configSchema, OrElse(params.configSchema, JObj(<<>>, <<>>)))
      s3 == Put(s2, K_exampleConfig, OrElse(params.exampleConfig, JObj(<<>>, <<>>)))
      c2 == Put(c1, K_startCommand, s3)
  IN  IF Truthy(params.env) THEN Put(c2, K_env, params.env) ELSE c2

\* yamlContent with commandFunction copied whenever it is given
YamlContentAnyCommandFunction(params) ==
  LET isLocalOnlyStdio == params.startCommandType = JStr(S_stdio) /\ Truthy(params.commandFunction)
      c0 == JObj(<<>>, <<>>)
      c1 == IF params.runtime = JStr(S_typescript)
            THEN LET r == Put(c0, K_runtime, JStr(S_typescript))
                 IN  IF Truthy(params.env) THEN Put(r, K_env, params.env) ELSE r
            ELSE IF ~isLocalOnlyStdio
            THEN LET r == IF Truthy(params.runtime) THEN Put(c0, K_runtime, params.runtime) ELSE c0
                     b0 == JObj(<<>>, <<>>)
                     b1 == IF Truthy(params.dockerfile) THEN Put(b0, K_dockerfile, params.dockerfile) ELSE b0
                     b2 == IF Truthy(params.dockerBuildPath)
                           THEN Put(b1, K_dockerBuildPath, params.dockerBuildPath) ELSE b1
                 IN  IF Truthy(params.dockerfile) \/ Truthy(params.dockerBuildPath)
                     THEN Put(r, K_build, b2) ELSE r
            ELSE c0
      s0 == JObj(<<K_type>>, <<params.startCommandType>>)
      s1 == IF Truthy(params.commandFunction)
            THEN Put(s0, K_commandFunction, params.commandFunction) ELSE s0
      s2 == Put(s1, K_configSchema, OrElse(params.configSchema, JObj(<<>>, <<>>)))
      s3 == Put(s2, K_exampleConfig, OrElse(params.exampleConfig, JObj(<<>>, <<>>)))
      c2 == Put(c1, K_startCommand, s3)
  IN  IF Truthy(params.env) THEN Put(c2, K_env, params.env) ELSE c2

\* the yamlContent object generateSmitheryYaml assembles, keys in insertion order
YamlContent(params) ==
  LET isLocalOnlyStdio == params.startCommandType = JStr(S_stdio) /\ Truthy(params.commandFunction)
      c0 == JObj(<<>>, <<>>)
      c1 == IF params.runtime = JStr(S_typescript)
            THEN LET r == Put(c0, K_runtime, JStr(S_typescript))
                 IN  IF Truthy(params.env) THEN Put(r, K_env, params.env) ELSE r
            ELSE IF ~isLocalOnlyStdio
            THEN LET r == IF Truthy(params.runtime) THEN Put(c0, K_runtime, params.runtime) ELSE c0
                     b0 == JObj(<<>>, <<>>)
                     b1 == IF Truthy(params.dockerfile) THEN Put(b0, K_dockerfile, params.dockerfile) ELSE b0
                     b2 == IF Truthy(params.dockerBuildPath)
                           THEN Put(b1, K_dockerBuildPath, params.dockerBuildPath) ELSE b1
                 IN  IF Truthy(params.dockerfile) \/ Truthy(params.dockerBuildPath)
                     THEN Put(r, K_build, b2) ELSE r
            ELSE c0
      s0 == JObj(<<K_type>>, <<params.startCommandType>>)
      s1 == IF isLocalOnlyStdio THEN Put(s0, K_commandFunction, params.commandFunction) ELSE s0
      s2 == Put(s1, K_configSchema, OrElse(params.configSchema, JObj(<<>>, <<>>)))
      s3 == Put(s2, K_exampleConfig, OrElse(params.exampleConfig, JObj(<<>>, <<>>)))
      c2 == Put(c1, K_startCommand, s3)
  IN  IF Truthy(params.env) THEN Put(c2, K_env, params.env) ELSE c2

\* the YAML text of one top-level entry of yamlContent
TopLevelYaml(key, value) ==
  IF key = K_startCommand /\ value.t = "object" THEN StartCommandYaml(value)
  ELSE IF key = K_build /\ value.t = "object" THEN BuildYaml(value)
  ELSE IF key = K_env /\ value.t = "object" THEN EnvYaml(value)
  ELSE IF value.t = "string" THEN <<Field(0, key, <<"\"">> \o value.s \o <<"\"">>)>>
  ELSE <<Field(0, key, JSONstringify(value))>>

generateSmitheryYaml(params) ==
  LET yamlContent == YamlContent(params)
      entries == Entries(yamlContent)
  IN  Ok(<<Tok("# Smithery configuration file: https://smithery.ai/docs/build/project-config/smithery-yaml")>>
         \o Flatten([i \in 1..Len(entries) |-> TopLevelYaml(entries[i][1], entries[i][2])]))

(***************************************************************************)
(* Requests                                                                 *)
(***************************************************************************)
apiKey == <<"a","p","i","K","e","y">>
debug == <<"d","e","b","u","g">>
timeout == <<"t","i","m","e","o","u","t">>
retries == <<"r","e","t","r","i","e","s">>
city == <<"c","i","t","y">>
tags == <<"t","a","g","s">>
region == <<"r","e","g","i","o","n">>
when == <<"w","h","e","n">>

PropApiKey ==
  JObj(<<K_type, K_description>>, <<JStr(S_string), JStr(<<"t","h","e"," ","\"","k","e","y","\"">>)>>)
PropDebug == JObj(<<K_type, K_default>>, <<JStr(S_boolean), JBool(FALSE)>>)
PropTimeout == JObj(<<K_type, K_default>>, <<JStr(S_number), JNum(5000)>>)
PropRetries == JObj(<<K_type>>, <<JStr(S_integer)>>)
PropRegion == JObj(<<K_type, K_default>>, <<JStr(S_string), JStr(<<"e","u">>)>>)
PropTags == JObj(<<K_type>>, <<JStr(S_array)>>)
PropWhen == JObj(<<K_type>>, <<JStr(<<"d","a","t","e">>)>>)
PropBadDescription == JObj(<<K_type, K_description>>, <<JStr(S_string), JNum(5)>>)

ObjectSchema(required, keys, props) ==
  JObj(<<K_type, K_required, K_properties>>,
       <<JStr(S_object), required, JObj(keys, props)>>)

\* the shapes startCommand.configSchema takes
ConfigSchemas ==
  { ObjectSchema(JArr(<<JStr(apiKey)>>), <<apiKey, debug>>, <<PropApiKey, PropDebug>>),
    ObjectSchema(JArr(<<JStr(apiKey)>>), <<apiKey, timeout, retries>>,
                 <<PropApiKey, PropTimeout, PropRetries>>),
    ObjectSchema(JArr(<<>>), <<tags, region, when>>, <<PropTags, PropRegion, PropWhen>>),
    JObj(<<K_type>>, <<JStr(S_object)>>),
    JObj(<<>>, <<>>),
    JObj(<<K_properties>>, <<JObj(<<>>, <<>>)>>),
    JObj(<<K_properties>>, <<JObj(<<apiKey>>, <<Null>>)>>),
    ObjectSchema(JBool(TRUE), <<retries>>, <<PropRetries>>),
    JObj(<<K_properties>>, <<JObj(<<apiKey>>, <<PropBadDescription>>)>>),
    JStr(<<"a","b">>) }

StartCommandOf(configSchema) ==
  JObj(<<K_startCommand>>,
       <<JObj(<<K_type, K_configSchema>>, <<JStr(<<"s","t","d","i","o">>), configSchema>>)>>)

\* the descriptor texts a request carries
DescriptorTexts ==
  { Absent, EmptyText, Garbage,
    Doc(Null),
    Doc(JStr(<<"h","i">>)),
    Doc(JObj(<<<<"r","u","n","t","i","m","e">>>>, <<JStr(<<"c","o","n","t","a","i","n","e","r">>)>>)),
    Doc(JObj(<<K_startCommand>>, <<Null>>)),
    Doc(JObj(<<K_startCommand>>, <<JObj(<<K_type>>, <<JStr(<<"h","t","t","p">>)>>)>>)) }
  \cup { Doc(StartCommandOf(cs)) : cs \in ConfigSchemas }

ToolPool ==
  { [name |-> <<"g","e","t","_","w","e","a","t","h","e","r">>, description |-> "Get weather",
     inputSchema |-> ObjectSchema(JArr(<<JStr(city)>>), <<city>>,
                                  <<JObj(<<K_type>>, <<JStr(S_string)>>)>>)],
    [name |-> <<"M","y"," ","T","o","o","l","!"," ","v","2">>, description |-> "Second tool",
     inputSchema |-> Undefined] }

PromptPool ==
  { [name |-> <<"s","u","m","_","u","p">>, description |-> "Summarise", template |-> "",
     argsSchema |-> Undefined] }

ResourcePool ==
  { [name |-> <<"D","o","c","s">>, uri |-> HttpsPrefix \o <<"x",".","y">>,
     description |-> "Docs", mimeType |-> ""],
    [name |-> <<"L","o","g">>, uri |-> <<"f","i","l","e",":","/","/","l">>,
     description |-> "Log", mimeType |-> "text/markdown"] }

SeqsUpTo(S, n) == UNION { [1..m -> S] : m \in 0..n }

\* SmitheryMigrationParams
Requests ==
  [ tools : SeqsUpTo(ToolPool, MaxTools),
    prompts : SeqsUpTo(PromptPool, MaxPrompts),
    resources : SeqsUpTo(ResourcePool, MaxResources),
    serverName : {"My MCP Server"},
    serverVersion : {"1.0.0"},
    includeBackwardCompatibility : BOOLEAN,
    smitheryYaml : DescriptorTexts ]

ValidModes == {"ts-smithery-cli", "ts-custom-container", "py-custom-container"}
\* what a caller of generateMigrationTemplate can pass as the mode
ModeInputs == ValidModes \cup {"go-custom-container"}

(***************************************************************************)
(* The template generators as operations                                    *)
(***************************************************************************)
Init ==
  /\ req \in Requests
  /\ mode = "none"
  /\ op = "idle"
  /\ res = NoResult

CallGenerateSmitheryCliMigration ==
  /\ op = "idle"
  /\ op' = "generateSmitheryCliMigration"
  /\ mode' = "ts-smithery-cli"
  /\ res' = generateSmitheryCliMigration(req)
  /\ UNCHANGED req

CallGenerateCustomContainerMigration ==
  /\ op = "idle"
  /\ op' = "generateCustomContainerMigration"
  /\ mode' = "ts-custom-container"
  /\ res' = generateCustomContainerMigration(req)
  /\ UNCHANGED req

CallGeneratePythonCustomContainerMigration ==
  /\ op = "idle"
  /\ op' = "generatePythonCustomContainerMigration"
  /\ mode' = "py-custom-container"
  /\ res' = generatePythonCustomContainerMigration(req)
  /\ UNCHANGED req

CallGenerateMigrationTemplate ==
  /\ op = "idle"
  /\ \E migrationMode \in ModeInputs :
       /\ mode' = migrationMode
       /\ res' = generateMigrationTemplate(req, migrationMode)
  /\ op' = "generateMigrationTemplate"
  /\ UNCHANGED req

Next ==
  \/ CallGenerateSmitheryCliMigration
  \/ CallGenerateCustomContainerMigration
  \/ CallGeneratePythonCustomContainerMigration
  \/ CallGenerateMigrationTemplate

Spec == Init /\ [][Next]_vars

(***************************************************************************)
(* Properties of the template generators                                    *)
(***************************************************************************)
\* the generator for mode m has returned text for the request in hand
Generated(m) == op # "idle" /\ mode = m /\ res.status = "ok"

\* the schema the generators extract from the request's descriptor text
Extracted == ExtractedConfigSchema(req).value

\* hasConfig as the generators compute it
HasConfig == HasKeys(Extracted)

DeclaresConfigSchema(text) ==
  \/ Contains(text, Tok("export const configSchema = z.object({"))
  \/ Contains(text, Tok("export const configSchema = z.object({});"))

TakesConfigParameter(text) == Contains(text, CreateServerWithConfig)

Names(items) == [i \in 1..Len(items) |-> items[i].name]

C2_CliAlwaysConfig ==
  Generated("ts-smithery-cli") =>
    /\ DeclaresConfigSchema(res.text)
    /\ Contains(res.text, CreateServerWithConfig)
    /\ ~Contains(res.text, CreateServerNoConfig)
    /\ ~HasConfig => Contains(res.text, Tok("export const configSchema = z.object({});"))
    /\ req.includeBackwardCompatibility =>
         Contains(res.text, Tok("const server = createServer({ config });"))

C2_Witness ==
  /\ Generated("ts-smithery-cli")
  /\ Extracted = Undefined
  /\ req.includeBackwardCompatibility
  /\ Contains(res.text, Tok("export const configSchema = z.object({});"))

HasStdioImport(text) == Contains(text, Tok("import { StdioServerTransport }"))
HasStdioBootstrap(text) ==
  \/ Contains(text, Tok("const transport = new StdioServerTransport();"))
  \/ Contains(text, Tok("const stdioTransport = new StdioServerTransport();"))

\* C4: whatever hasConfig is, both TypeScript outputs have the
\* StdioServerTransport import and a new StdioServerTransport() bootstrap
\* exactly when includeBackwardCompatibility is true, and the Python output
\* has the TRANSPORT branch with mcp.run() exactly then.
C4_BackwardCompatibilityGating ==
  /\ \A m \in {"ts-smithery-cli", "ts-custom-container"} :
       Generated(m) =>
         /\ HasStdioImport(res.text) <=> req.includeBackwardCompatibility
         /\ HasStdioBootstrap(res.text) <=> req.includeBackwardCompatibility
  /\ Generated("py-custom-container") =>
       /\ Contains(res.text, Tok("if transport_mode == http:")) <=> req.includeBackwardCompatibility
       /\ Contains(res.text, Tok("mcp.run()")) <=> req.includeBackwardCompatibility

C4_Witness ==
  /\ Generated("ts-custom-container")
  /\ HasConfig
  /\ ~req.includeBackwardCompatibility
  /\ ~HasStdioImport(res.text)

\* the form the claim gives the parser line of a property of the given type
ExpectedEnvForm(ty) ==
  IF ty = JStr(S_boolean) THEN "=== 'true'"
  ELSE IF ty \in {JStr(S_number), JStr(S_integer)} THEN "? Number(...) : undefined"
  ELSE "raw"

IsFullyUppercased(envVar, key) ==
  /\ Len(envVar) = Len(key)
  /\ \A i \in 1..Len(key) :
       /\ envVar[i] \notin Range(Lowers)
       /\ IF key[i] \in Range(Lowers) THEN Lowers[IndexOf(envVar[i], Uppers)] = key[i]
          ELSE envVar[i] = key[i]

\* C5: with backward compatibility and an extracted schema that declares
\* properties, the environment parser of a TypeScript output has one line per
\* property, in the order of the properties; the line of p reads
\* process.env.<p uppercased>, compared with 'true' for boolean, through
\* Number() for number and integer, and raw for every other type.
C5_EnvConfigParser ==
  \A m \in {"ts-smithery-cli", "ts-custom-container"} :
    ( /\ Generated(m)
      /\ req.includeBackwardCompatibility
      /\ Extracted.t = "object"
      /\ Get(Extracted, K_properties).t = "object" )
    => LET P == Get(Extracted, K_properties)
           lines == OfKind(res.text, "envConfigLine")
       IN  /\ Len(lines) = Len(P.keys)
           /\ \A i \in 1..Len(lines) :
                /\ lines[i].key = P.keys[i]
                /\ IsFullyUppercased(lines[i].envVar, P.keys[i])
                /\ lines[i].form = ExpectedEnvForm(Get(P.vals[i], K_type))

C5_Witness ==
  /\ Generated("ts-smithery-cli")
  /\ req.includeBackwardCompatibility
  /\ Extracted.t = "object"
  /\ Get(Extracted, K_properties).t = "object"
  /\ Get(Extracted, K_properties).keys = <<apiKey, timeout, retries>>
  /\ Len(OfKind(res.text, "envConfigLine")) = 3

\* C6: a custom-container TypeScript output without backward compatibility
\* has no StdioServerTransport import, a parameterless exported createServer
\* when there is no config, and a main() that calls app.listen without reading
\* or branching on TRANSPORT.
C6_HttpOnlyStartup ==
  (Generated("ts-custom-container") /\ ~req.includeBackwardCompatibility) =>
    /\ ~HasConfig => Contains(res.text, CreateServerNoConfig)
    /\ ~HasStdioImport(res.text)
    /\ Contains(res.text, Tok("app.listen(PORT, ...);"))
    /\ ~Contains(res.text, Tok("const transport = process.env.TRANSPORT || 'stdio';"))
    /\ ~Contains(res.text, Tok("if (transport === 'http') {"))
    /\ ~Contains(res.text, Tok("process.exit(1);"))

\* the request of the end-to-end scenario
C6_Witness ==
  /\ Generated("ts-custom-container")
  /\ ~req.includeBackwardCompatibility
  /\ req.tools = <<>> /\ req.prompts = <<>> /\ req.resources = <<>>
  /\ req.smitheryYaml = Absent
  /\ Contains(res.text, CreateServerNoConfig)

\* C8 as stated: generateMigrationTemplate throws exactly when the mode is
\* not one of the three enumerated modes, and then with the 'Unsupported
\* migration mode' error; for a valid mode it returns text.
C8_AsStated ==
  op = "generateMigrationTemplate" =>
    /\ res.status = "throw" <=> mode \notin ValidModes
    /\ res.status = "throw" => res.err = "Unsupported migration mode"

\* the descriptor text is unparsable, or parses to a value without a
\* startCommand.configSchema
LacksConfigSchema(text) ==
  \/ text.kind = "garbage"
  \/ /\ text.kind = "doc"
     /\ ~( /\ text.doc.t = "object"
           /\ K_startCommand \in Range(text.doc.keys)
           /\ Get(text.doc, K_startCommand).t = "object"
           /\ K_configSchema \in Range(Get(text.doc, K_startCommand).keys) )

\* C9: a request whose descriptor text is unparsable, or parses without a
\* startCommand.configSchema, gets from every generator the result of the
\* same request without descriptor text, and extractConfigSchema returns
\* undefined for it without throwing.
C9_FailSoftExtraction ==
  (op # "idle" /\ mode \in ValidModes /\ LacksConfigSchema(req.smitheryYaml)) =>
    /\ res = generateMigrationTemplate([req EXCEPT !.smitheryYaml = Absent], mode)
    /\ extractConfigSchemaFromSmitheryYaml(req.smitheryYaml) = [status |-> "ok", value |-> Undefined]

C9_Witness ==
  /\ op # "idle"
  /\ mode = "py-custom-container"
  /\ req.smitheryYaml = Garbage
  /\ Len(req.tools) > 0
  /\ res.status = "ok"

(***************************************************************************)
(* The smithery.yaml generator as an operation                              *)
(***************************************************************************)
\* SmitheryYamlParams
YamlRequests ==
  [ runtime : {Undefined, JStr(S_container), JStr(S_typescript)},
    startCommandType : {JStr(S_http), JStr(S_stdio)},
    configSchema : {Undefined, JObj(<<>>, <<>>),
                    ObjectSchema(JArr(<<JStr(apiKey)>>), <<apiKey, debug>>, <<PropApiKey, PropDebug>>)},
    exampleConfig : {Undefined, JObj(<<apiKey, debug>>, <<JStr(<<"k">>), JBool(FALSE)>>)},
    env : {Undefined, JObj(<<>>, <<>>),
           JObj(<<<<"L","O","G">>>>, <<JStr(<<"1">>)>>)},
    dockerfile : {Undefined, JStr(<<"D","o","c","k","e","r","f","i","l","e">>)},
    dockerBuildPath : {Undefined, JStr(<<".">>)},
    commandFunction : {Undefined, JStr(<<"(","c",")","=",">","(","{","\n","}",")">>)} ]

InitYaml ==
  /\ req \in YamlRequests
  /\ mode = "none"
  /\ op = "idle"
  /\ res = NoResult

CallGenerateSmitheryYaml ==
  /\ op = "idle"
  /\ op' = "generateSmitheryYaml"
  /\ res' = generateSmitheryYaml(req)
  /\ UNCHANGED <<req, mode>>

NextYaml == CallGenerateSmitheryYaml

SpecYaml == InitYaml /\ [][NextYaml]_vars

\* the keys of the lines at the given indent, in the order of the text
KeysAt(text, indent) ==
  LET lines == SelectSeq(text, LAMBDA x : x.k \in {"field", "block"} /\ x.indent = indent)
  IN  [i \in 1..Len(lines) |-> lines[i].key]

\* the keys of ks appear in the order that order gives them
InOrder(ks, order) ==
  /\ \A i \in 1..Len(ks) : ks[i] \in Range(order)
  /\ \A i, j \in 1..Len(ks) : i < j => IndexOf(ks[i], order) < IndexOf(ks[j], order)

\* the lines of the startCommand block: from its opening line up to the next
\* top-level line
StartCommandLines(text) ==
  LET start == CHOOSE i \in 1..Len(text) : text[i] = Block(0, K_startCommand)
      later == { j \in (start+1)..Len(text) :
                   text[j].k \in {"field", "block"} /\ text[j].indent = 0 }
      stop == IF later = {} THEN Len(text) + 1
              ELSE CHOOSE j \in later : \A l \in later : j <= l
  IN  SubSeq(text, start + 1, stop - 1)

\* C10 as stated: the text opens with the comment line, its top-level fields
\* come in the order runtime, build, startCommand, env, and the fields of
\* startCommand in the order type, commandFunction, configSchema,
\* exampleConfig.
C10_AsStated ==
  op = "generateSmitheryYaml" =>
    /\ res.status = "ok"
    /\ res.text[1] = Tok("# Smithery configuration file: https://smithery.ai/docs/build/project-config/smithery-yaml")
    /\ InOrder(KeysAt(res.text, 0), <<K_runtime, K_build, K_startCommand, K_env>>)
    /\ InOrder(KeysAt(StartCommandLines(res.text), 2),
               <<K_type, K_commandFunction, K_configSchema, K_exampleConfig>>)

(***************************************************************************)
(* migration-overview.ts                                                    *)
(***************************************************************************)
\* value && Object.keys(value).length > 0
NonEmptyValue(v) == IF Truthy(v) THEN JBool(Len(Keys(v)) > 0) ELSE v

\* parsed?.startCommand?.<key>
StartCommandField(parsed, key) ==
  IF IsNullish(parsed) THEN Undefined
  ELSE LET sc == Get(parsed, K_startCommand)
       IN  IF IsNullish(sc) THEN Undefined ELSE Get(sc, key)

\* the analysis looking at startCommand.configSchema only
analyzeSmitheryYamlForSessionConfigSchemaOnly(yamlContent) ==
  LET parsed == YAMLparse(yamlContent)
  IN  IF parsed.status = "throw" THEN JBool(FALSE)
      ELSE NonEmptyValue(StartCommandField(parsed.value, K_configSchema))

\* the value the function returns: hasConfigSchema || hasExampleConfig, or
\* false when the parser throws
analyzeSmitheryYamlForSessionConfig(yamlContent) ==
  LET parsed == YAMLparse(yamlContent)
  IN  IF parsed.status = "throw" THEN JBool(FALSE)
      ELSE LET hasConfigSchema == NonEmptyValue(StartCommandField(parsed.value, K_configSchema))
               hasExampleConfig == NonEmptyValue(StartCommandField(parsed.value, K_exampleConfig))
           IN  OrElse(hasConfigSchema, hasExampleConfig)

File(filename, description, required, generated) ==
  [filename |-> filename, description |-> description,
   required |-> required, generated |-> generated]

When(cond, items) == IF cond THEN items ELSE <<>>

\* the local plan with the reasons it computes listed in its notes
generateLocalStdioOverviewWithReasons(params) ==
  [ migrationPath |-> "local-stdio-only",
    title |-> "Local STDIO Servers - Contact Support",
    description |-> "Your server needs local file system access or local application integration.",
    prerequisites |-> <<"Nothing! We'll handle the setup for you.">>,
    filesNeeded |-> <<>>,
    projectStructure |->
      [description |-> "Keep your existing project structure - no changes needed",
       structure |-> <<"No changes to your existing codebase required">>],
    deploymentSteps |->
      << "Email us: contact@smithery.ai",
         "Join our Discord: https://discord.gg/sKd9uycgH9",
         "We'll work with you directly to get your server set up - no work needed on your end!" >>,
    additionalNotes |->
      When(params.needsFileSystemAccess, <<"File system access required">>)
      \o When(params.needsLocalApps, <<"Local application integration needed">>),
    nextSteps |-> <<>> ]

generateLocalStdioOverview(params) ==
  [ migrationPath |-> "local-stdio-only",
    title |-> "Local STDIO Servers - Contact Support",
    description |-> "Your server needs local file system access or local application integration.",
    prerequisites |-> <<"Nothing! We'll handle the setup for you.">>,
    filesNeeded |-> <<>>,
    projectStructure |->
      [description |-> "Keep your existing project structure - no changes needed",
       structure |-> <<"No changes to your existing codebase required">>],
    deploymentSteps |->
      << "Email us: contact@smithery.ai",
         "Join our Discord: https://discord.gg/sKd9uycgH9",
         "We'll work with you directly to get your server set up - no work needed on your end!" >>,
    additionalNotes |-> <<>>,
    nextSteps |-> <<>> ]

generateSmitheryCLIOverview(params) ==
  [ migrationPath |-> "ts-smithery-cli",
    title |-> "TypeScript with Smithery CLI Migration (RECOMMENDED)",
    description |-> "RECOMMENDED: This is the recommended approach for TypeScript projects.",
    prerequisites |->
      << "Node.js 18+ installed",
         "Existing TypeScript MCP server with STDIO transport",
         "GitHub repository for deployment",
         "Basic understanding of MCP concepts" >>,
    filesNeeded |->
      << File("src/index.ts (or main entry file)",
              "Entry point file that exports the createServer function", TRUE, TRUE),
         File("package.json",
              "Updated with Smithery CLI scripts and module field pointing to createServer export",
              TRUE, FALSE),
         File("yarn.lock or pnpm-lock.yaml",
              "Lock file required if using yarn or pnpm (not needed for npm)", FALSE, FALSE),
         File("smithery.yaml", "Smithery configuration (runtime: typescript)", TRUE, TRUE) >>
      \o When(params.includeBackwardCompatibility,
              << File("tsconfig.json", "TypeScript configuration for STDIO builds", FALSE, FALSE) >>),
    projectStructure |->
      [description |-> "Reference TypeScript project structure optimized for Smithery CLI",
       structure |-> << "my-mcp-server/", "src/", "index.ts", "package.json", "smithery.yaml",
                        "tsconfig.json", "README.md" >>],
    deploymentSteps |->
      << "1. Update package.json with Smithery CLI scripts and module field pointing to createServer export",
         "2. Add build and dev scripts",
         "3. Generate new src/index.ts with exported createServer function",
         "4. Update smithery.yaml with runtime: typescript",
         "5. Test locally with 'npm run dev' (interactive playground)",
         "6. Push changes to your GitHub repository",
         "7. Wait a few minutes for auto-deploy, or manually trigger deployment" >>,
    additionalNotes |->
      << "No Dockerfile needed - Smithery CLI handles containerization",
         "Session-based configuration management",
         "Required scripts: build, dev",
         "Include your lock file (yarn.lock or pnpm-lock.yaml) if using yarn/pnpm",
         "The 'module' field in package.json must point to the file that exports createServer" >>
      \o When(params.includeBackwardCompatibility, <<"STDIO backward compatibility included">>),
    nextSteps |->
      << "Use 'create_migration_template' tool with mode 'ts-smithery-cli'",
         "Use 'generate_smithery_yaml' tool for smithery.yaml configuration",
         "Use 'validate_package_json' tool with migrationPath 'ts-smithery-cli'" >> ]

generateTypeScriptContainerOverview(params) ==
  [ migrationPath |-> "ts-custom-container",
    title |-> "TypeScript Custom Container Migration",
    description |-> "Migrate to HTTP transport using custom Express server with full Docker control.",
    prerequisites |->
      << "Node.js 18+ installed",
         "Docker installed and running",
         "Understanding of Express.js and middleware",
         "Existing TypeScript MCP server",
         "GitHub repository for deployment" >>,
    filesNeeded |->
      << File("src/index.ts", "Main server file with Express app and MCP request handler", TRUE, TRUE),
         File("Dockerfile", "Custom Docker container configuration", TRUE, TRUE),
         File("package.json", "Updated with Express dependencies and scripts", TRUE, FALSE),
         File("smithery.yaml", "Smithery configuration (runtime: container, type: http)", TRUE, TRUE),
         File("tsconfig.json", "TypeScript configuration for building", TRUE, FALSE) >>
      \o When(params.includeBackwardCompatibility,
              << File(".env.example", "Environment variables template", FALSE, FALSE) >>),
    projectStructure |->
      [description |-> "Reference TypeScript project with Express server and Docker containerization",
       structure |-> << "my-mcp-server/", "src/", "index.ts", "dist/", "Dockerfile", "package.json",
                        "smithery.yaml", "tsconfig.json", "README.md" >>],
    deploymentSteps |->
      << "1. Generate Express-based src/index.ts with MCP request handlers",
         "2. Create custom Dockerfile with Node.js and build steps",
         "3. Update package.json with Express dependencies",
         "4. Create smithery.yaml with container runtime configuration",
         "5. Test locally: 'npm run build && docker build -t server . && docker run -p 8081:8081 -e PORT=8081 server'",
         "6. Push changes to your GitHub repository",
         "7. Wait a few minutes for auto-deploy, or manually trigger deployment",
         "8. Smithery builds and deploys your custom container" >>,
    additionalNotes |->
      << "Full control over Express middleware and routing",
         "Custom Docker environment configuration",
         "Advanced CORS and security configurations",
         "Per-request configuration parsing from URL parameters",
         "IMPORTANT: Server must listen on process.env.PORT (Smithery provides this, defaults to 8081)" >>
      \o When(params.includeBackwardCompatibility,
              <<"STDIO backward compatibility with TRANSPORT env var">>),
    nextSteps |->
      << "Use 'create_migration_template' tool with mode 'ts-custom-container'",
         "Use 'generate_dockerfile' tool with containerType 'ts-custom-container'",
         "Use 'generate_smithery_yaml' tool for container runtime configuration",
         "Update package.json with Express, CORS, and other dependencies" >> ]

\* the number that opens a deployment step after the optional middleware step
StepNo(needsSessionConfig, n) == IF needsSessionConfig THEN ToString(n + 1) ELSE ToString(n)

generatePythonContainerOverview(params) ==
  LET needsSessionConfig == Truthy(params.needsSessionConfig)
  IN
  [ migrationPath |-> "py-custom-container",
    title |-> "Python Custom Container Migration",
    description |-> "Migrate to HTTP transport using FastMCP with custom middleware and Docker control.",
    prerequisites |->
      << "Python 3.11+ installed",
         "uv or pip package manager",
         "Docker installed and running",
         "Understanding of FastAPI/Starlette middleware",
         "Existing Python MCP server",
         "GitHub repository for deployment" >>,
    filesNeeded |->
      << File("src/main.py", "Main server file with FastMCP and HTTP transport", TRUE, TRUE) >>
      \o When(needsSessionConfig,
              << File("src/middleware.py",
                      "Custom middleware for Smithery configuration handling (access tokens, session settings)",
                      TRUE, TRUE) >>)
      \o << File("Dockerfile", "Custom Docker container with Python and uv/pip", TRUE, TRUE),
            File("pyproject.toml", "Python project configuration with FastMCP dependencies", TRUE, FALSE),
            File("smithery.yaml", "Smithery configuration (runtime: container, type: http)", TRUE, TRUE),
            File("uv.lock", "Dependency lock file (if using uv)", FALSE, FALSE) >>,
    projectStructure |->
      [description |-> "Reference Python project structure with FastMCP server and Docker containerization",
       structure |-> << "my-mcp-server/", "src/", "main.py" >>
                     \o When(needsSessionConfig, <<"middleware.py">>)
                     \o << "Dockerfile", "pyproject.toml", "uv.lock", "smithery.yaml", "README.md" >>],
    deploymentSteps |->
      << "1. Generate FastMCP-based src/main.py with HTTP transport" >>
      \o When(needsSessionConfig, <<"2. Create src/middleware.py for configuration handling">>)
      \o << StepNo(needsSessionConfig, 2) \o ". Create custom Dockerfile with Python and dependency management",
            StepNo(needsSessionConfig, 3) \o ". Update pyproject.toml with FastMCP and required dependencies",
            StepNo(needsSessionConfig, 4) \o ". Create smithery.yaml with container runtime configuration",
            StepNo(needsSessionConfig, 5) \o ". Test locally: 'uv sync && docker build -t server . && docker run -p 8081:8081 -e PORT=8081 server'",
            StepNo(needsSessionConfig, 6) \o ". Push changes to your GitHub repository",
            StepNo(needsSessionConfig, 7) \o ". Wait a few minutes for auto-deploy, or manually trigger deployment" >>,
    additionalNotes |->
      << "FastMCP provides simple decorator-based tool registration" >>
      \o (IF needsSessionConfig
          THEN <<"Per-request configuration access through middleware">>
          ELSE <<"No middleware needed if no session configuration required">>)
      \o When(params.includeBackwardCompatibility,
              <<"STDIO backward compatibility with TRANSPORT env var">>)
      \o << "CORS handling for browser-based MCP clients",
            "IMPORTANT: Server must listen on int(os.environ.get('PORT', 8081)) - Smithery provides PORT env var" >>,
    nextSteps |->
      << "Use 'create_migration_template' tool with mode 'py-custom-container'",
         "Use 'generate_dockerfile' tool with containerType 'py-custom-container'",
         "Use 'generate_smithery_yaml' tool for container runtime configuration",
         "Create pyproject.toml with FastMCP and uvicorn dependencies" >> ]

\* The result is the plan in the field `value`, or the thrown error.
generateMigrationOverview(params) ==
  LET detectedSessionConfig ==
        IF TextGiven(params.existingSmitheryYaml)
        THEN analyzeSmitheryYamlForSessionConfig(params.existingSmitheryYaml)
        ELSE JBool(FALSE)
      commonParams ==
        [ includeBackwardCompatibility |-> params.includeBackwardCompatibility,
          needsLocalAccess |-> params.needsFileSystemAccess \/ params.needsLocalApps,
          needsFileSystemAccess |-> params.needsFileSystemAccess,
          needsLocalApps |-> params.needsLocalApps,
          needsSessionConfig |-> detectedSessionConfig ]
  IN  CASE params.migrationPath = "local-stdio-only" ->
             [status |-> "ok", value |-> generateLocalStdioOverview(commonParams)]
        [] params.migrationPath = "ts-smithery-cli" ->
             [status |-> "ok", value |-> generateSmitheryCLIOverview(commonParams)]
        [] params.migrationPath = "ts-custom-container" ->
             [status |-> "ok", value |-> generateTypeScriptContainerOverview(commonParams)]
        [] params.migrationPath = "py-custom-container" ->
             [status |-> "ok", value |-> generatePythonContainerOverview(commonParams)]
        [] OTHER -> Thrown("Unsupported migration path: " \o params.migrationPath)

Heading(level, text) == [k |-> "heading", level |-> level, text |-> text]
Line(text) == [k |-> "line", text |-> text]
Bullet(text) == [k |-> "bullet", text |-> text]
FileEntry(file) ==
  [k |-> "file", filename |-> file.filename,
   required |-> IF file.required THEN "(Required)" ELSE "(Optional)",
   generated |-> IF file.generated THEN "(Generated)" ELSE "(Manual)",
   description |-> file.description]

\* a list joined by newlines: one line per member, and one empty line for the
\* empty list
JoinedLines(items) == IF Len(items) = 0 THEN <<Line("")>> ELSE items

formatMigrationOverview(overview) ==
  << Heading(1, overview.title), Heading(2, "Overview"), Line(overview.description),
     Heading(2, "Prerequisites") >>
  \o JoinedLines([i \in 1..Len(overview.prerequisites) |-> Bullet(overview.prerequisites[i])])
  \o << Heading(2, "Required Files") >>
  \o JoinedLines([i \in 1..Len(overview.filesNeeded) |-> FileEntry(overview.filesNeeded[i])])
  \o << Heading(2, "Project Structure"), Line(overview.projectStructure.description),
        Tok("code fence") >>
  \o [i \in 1..Len(overview.projectStructure.structure) |->
        [k |-> "structure", text |-> overview.projectStructure.structure[i]]]
  \o << Tok("code fence"), Heading(2, "Deployment Steps") >>
  \o JoinedLines([i \in 1..Len(overview.deploymentSteps) |-> Line(overview.deploymentSteps[i])])
  \o << Heading(2, "Additional Notes") >>
  \o JoinedLines([i \in 1..Len(overview.additionalNotes) |-> Line(overview.additionalNotes[i])])
  \o << Heading(2, "Next Steps") >>
  \o JoinedLines([i \in 1..Len(overview.nextSteps) |-> Bullet(overview.nextSteps[i])])

(***************************************************************************)
(* yaml-validation: the schema of smithery.yaml and its validator           *)
(***************************************************************************)
\* z.string().optional(), z.array(z.string()).optional()
OptionalString(v) == v.t \in {"undefined", "string"}
OptionalStringArray(v) ==
  \/ v.t = "undefined"
  \/ v.t = "array" /\ \A i \in 1..Len(v.items) : v.items[i].t = "string"
\* z.record(z.string(), z.string()).optional()
OptionalStringRecord(v) ==
  \/ v.t = "undefined"
  \/ v.t = "object" /\ \A i \in 1..Len(v.vals) : v.vals[i].t = "string"

\* whether the value parses under JSONSchemaSchema
RECURSIVE JSONSchemaSchema(_)
JSONSchemaSchema(v) ==
  /\ v.t = "object"
  /\ \/ Get(v, K_type) \in {Undefined, JStr(S_string), JStr(S_number), JStr(S_boolean),
                           JStr(<<"n","u","l","l">>)}
     \/ /\ Get(v, K_type) = JStr(S_object)
        /\ OptionalStringArray(Get(v, K_required))
        /\ LET properties == Get(v, K_properties)
           IN  \/ properties.t = "undefined"
               \/ /\ properties.t = "object"
                  /\ \A i \in 1..Len(properties.vals) : JSONSchemaSchema(properties.vals[i])
     \/ /\ Get(v, K_type) = JStr(S_array)
        /\ OptionalStringArray(Get(v, K_required))
        /\ LET items == Get(v, <<"i","t","e","m","s">>)
           IN  items.t = "undefined" \/ JSONSchemaSchema(items)
  /\ OptionalString(Get(v, K_description))

\* whether the value parses under StartCommandSchema
StartCommandSchema(v) ==
  /\ v.t = "object"
  /\ \/ Get(v, K_type) = JStr(S_stdio) /\ Get(v, K_commandFunction).t = "string"
     \/ Get(v, K_type) = JStr(S_http)
  /\ IsNullish(Get(v, K_configSchema)) \/ JSONSchemaSchema(Get(v, K_configSchema))

\* the schema with the typescript branch refusing build and both branches
\* requiring startCommand, and the http branch refusing commandFunction
ProjectConfigSchemaStrict(v) ==
  /\ v.t = "object"
  /\ StartCommandSchema(Get(v, K_startCommand))
  /\ Get(Get(v, K_startCommand), K_type) = JStr(S_http)
       => Get(Get(v, K_startCommand), K_commandFunction) = Undefined
  /\ OptionalStringRecord(Get(v, K_env))
  /\ \/ Get(v, K_runtime) = JStr(S_typescript) /\ Get(v, K_build) = Undefined
     \/ /\ Get(v, K_runtime) \in {Undefined, JStr(S_container)}
        /\ LET build == Get(v, K_build)
           IN  \/ build.t = "undefined"
               \/ /\ build.t = "object"
                  /\ OptionalString(Get(build, K_dockerfile))
                  /\ OptionalString(Get(build, K_dockerBuildPath))

\* whether the value parses under ProjectConfigSchema
ProjectConfigSchema(v) ==
  /\ v.t = "object"
  /\ \/ /\ Get(v, K_runtime) = JStr(S_typescript)
        /\ OptionalStringRecord(Get(v, K_env))
     \/ /\ Get(v, K_runtime) \in {Undefined, JStr(S_container)}
        /\ LET build == Get(v, K_build)
           IN  \/ build.t = "undefined"
               \/ /\ build.t = "object"
                  /\ OptionalString(Get(build, K_dockerfile))
                  /\ OptionalString(Get(build, K_dockerBuildPath))
        /\ StartCommandSchema(Get(v, K_startCommand))
        /\ OptionalStringRecord(Get(v, K_env))

\* A failed union reports one issue at the root.
validateSmitheryYaml(params) ==
  LET parsed == YAMLparse(params.yamlContent)
  IN  IF parsed.status = "throw"
      THEN Ok(<<[k |-> "YAML parse error", message |-> parsed.err]>>)
      ELSE IF ProjectConfigSchema(parsed.value)
      THEN Ok(<<Line("Valid smithery.yaml configuration")>>)
      ELSE Ok(<<Line("Validation errors:"),
                [k |-> "issue", path |-> "root", message |-> "Invalid input"]>>)

(***************************************************************************)
(* index.ts: the server and its four tool handlers                          *)
(***************************************************************************)
\* catch (error) { return { content: [{ type: "text", text: `${prefix}: ${message}` }] } }
ErrorText(prefix, message) == Ok(<<[k |-> prefix, message |-> message]>>)

getMigrationOverviewHandler(args) ==
  LET overview == generateMigrationOverview(args)
  IN  IF overview.status = "throw"
      THEN ErrorText("Error generating migration overview", overview.err)
      ELSE Ok(formatMigrationOverview(overview.value))

validateSmitheryYamlHandler(args) ==
  LET validation == validateSmitheryYaml(args)
  IN  IF validation.status = "throw"
      THEN ErrorText("Error validating smithery.yaml", validation.err)
      ELSE Ok(validation.text)

createMigrationTemplateHandlerNoCatch(args) ==
  LET migrationCode == generateMigrationTemplate(args, args.migrationMode)
  IN  IF migrationCode.status = "throw" THEN migrationCode
      ELSE Ok(<<[k |-> "Generated migration code",
                 description |-> getMigrationModeDescription(args.migrationMode),
                 fence |-> getFileExtension(args.migrationMode)]>>
              \o migrationCode.text \o <<Tok("code fence")>>)

createMigrationTemplateHandler(args) ==
  LET migrationCode == generateMigrationTemplate(args, args.migrationMode)
  IN  IF migrationCode.status = "throw"
      THEN ErrorText("Error generating migration template", migrationCode.err)
      ELSE Ok(<<[k |-> "Generated migration code",
                 description |-> getMigrationModeDescription(args.migrationMode),
                 fence |-> getFileExtension(args.migrationMode)]>>
              \o migrationCode.text \o <<Tok("code fence")>>)

\* config.debug, read while the argument of generateSmitheryYaml is built
ConfigDebug(config) ==
  IF IsNullish(config)
  THEN Thrown("TypeError")
  ELSE [status |-> "ok", value |-> Get(config, debug)]

generateSmitheryYamlHandler(config, args) ==
  LET configDebug == ConfigDebug(config)
      yamlContent == generateSmitheryYaml(args)
  IN  IF configDebug.status = "throw"
      THEN ErrorText("Error generating smithery.yaml", configDebug.err)
      ELSE IF yamlContent.status = "throw"
      THEN ErrorText("Error generating smithery.yaml", yamlContent.err)
      ELSE Ok(<<Line("Generated smithery.yaml configuration:"), Tok("code fence yaml")>>
              \o yamlContent.text \o <<Tok("code fence")>>)

(***************************************************************************)
(* The tool handlers as operations                                          *)
(***************************************************************************)
\* the longest tools, prompts and resources lists of a tool call
MaxHandlerItems == 1

\* what createServer is given as its config
ServerConfigs == {Undefined, JObj(<<>>, <<>>), JObj(<<debug>>, <<JBool(TRUE)>>)}

ExampleConfigOnly ==
  JObj(<<K_startCommand>>,
       <<JObj(<<K_type, K_exampleConfig>>,
              <<JStr(S_http), JObj(<<apiKey>>, <<JStr(<<"k">>)>>)>>)>>)

\* MigrationOverviewToolSchema.inputSchema
OverviewArgs ==
  [ migrationPath : ValidModes,
    includeBackwardCompatibility : BOOLEAN,
    needsFileSystemAccess : BOOLEAN,
    needsLocalApps : BOOLEAN,
    existingSmitheryYaml :
      { Absent, EmptyText, Garbage, Doc(Null),
        Doc(JObj(<<K_startCommand>>, <<JObj(<<K_type>>, <<JStr(S_http)>>)>>)),
        Doc(StartCommandOf(JObj(<<>>, <<>>))),
        Doc(StartCommandOf(ObjectSchema(JArr(<<JStr(apiKey)>>), <<apiKey>>, <<PropApiKey>>))),
        Doc(ExampleConfigOnly) } ]

HttpStartCommand(configSchema) ==
  JObj(<<K_type, K_configSchema>>, <<JStr(S_http), configSchema>>)

\* YamlValidationToolSchema.inputSchema
ValidationArgs ==
  [ yamlContent :
      (DescriptorTexts \ {Absent}) \cup
      { Doc(JObj(<<K_runtime>>, <<JStr(S_typescript)>>)),
        Doc(JObj(<<K_runtime, K_env>>,
                 <<JStr(S_typescript), JObj(<<<<"L","O","G">>>>, <<JNum(1)>>)>>)),
        Doc(JObj(<<K_runtime, K_startCommand>>,
                 <<JStr(S_container), JObj(<<K_type>>, <<JStr(S_http)>>)>>)),
        Doc(JObj(<<K_runtime, K_startCommand>>,
                 <<JStr(S_container), JObj(<<K_type>>, <<JStr(S_stdio)>>)>>)),
        Doc(JObj(<<K_startCommand>>,
                 <<HttpStartCommand(ObjectSchema(JArr(<<JStr(apiKey)>>), <<apiKey, debug>>,
                                                 <<PropApiKey, PropDebug>>))>>)),
        Doc(JObj(<<K_startCommand>>,
                 <<HttpStartCommand(ObjectSchema(JArr(<<>>), <<retries>>, <<PropRetries>>))>>)),
        Doc(JObj(<<K_build, K_startCommand>>,
                 <<JObj(<<K_dockerfile>>, <<JNum(1)>>), JObj(<<K_type>>, <<JStr(S_http)>>)>>)),
        Doc(JObj(<<K_runtime, K_build>>,
                 <<JStr(S_typescript), JObj(<<K_dockerfile>>, <<JStr(<<"D">>)>>)>>)),
        Doc(JObj(<<K_runtime, K_startCommand>>,
                 <<JStr(S_container),
                   JObj(<<K_type, K_commandFunction>>, <<JStr(S_http), JStr(<<"f">>)>>)>>)),
        Doc(JObj(<<K_startCommand>>,
                 <<JObj(<<K_type, K_commandFunction>>, <<JStr(S_stdio), JStr(<<"f">>)>>)>>)),
        Doc(JObj(<<K_startCommand>>,
                 <<JObj(<<K_type, K_commandFunction>>, <<JStr(S_stdio), JNum(1)>>)>>)) },
    filePath : {Absent} ]

\* UnifiedMigrationTemplateToolSchema.inputSchema
TemplateArgs ==
  [ migrationMode : ValidModes,
    tools : SeqsUpTo(ToolPool, MaxHandlerItems),
    prompts : SeqsUpTo(PromptPool, MaxHandlerItems),
    resources : SeqsUpTo(ResourcePool, MaxHandlerItems),
    serverName : {"My MCP Server"},
    serverVersion : {"1.0.0"},
    includeBackwardCompatibility : BOOLEAN,
    smitheryYaml : DescriptorTexts ]

\* SmitheryYamlGeneratorToolSchema.inputSchema: runtime and startCommandType
\* have defaults, so the handler never sees them undefined
YamlArgs == { r \in YamlRequests : r.runtime # Undefined }

ToolCall(tool, config, args) == [tool |-> tool, config |-> config, args |-> args]

ToolCalls ==
  { ToolCall("get_migration_overview", c, a) : c \in ServerConfigs, a \in OverviewArgs }
  \cup { ToolCall("validate_smithery_yaml", c, a) : c \in ServerConfigs, a \in ValidationArgs }
  \cup { ToolCall("create_migration_template", c, a) : c \in ServerConfigs, a \in TemplateArgs }
  \cup { ToolCall("generate_smithery_yaml", c, a) : c \in ServerConfigs, a \in YamlArgs }

InitHandlers ==
  /\ req \in ToolCalls
  /\ mode = "none"
  /\ op = "idle"
  /\ res = NoResult

CallGetMigrationOverview ==
  /\ op = "idle"
  /\ req.tool = "get_migration_overview"
  /\ op' = "get_migration_overview"
  /\ res' = getMigrationOverviewHandler(req.args)
  /\ UNCHANGED <<req, mode>>

CallValidateSmitheryYaml ==
  /\ op = "idle"
  /\ req.tool = "validate_smithery_yaml"
  /\ op' = "validate_smithery_yaml"
  /\ res' = validateSmitheryYamlHandler(req.args)
  /\ UNCHANGED <<req, mode>>

CallCreateMigrationTemplate ==
  /\ op = "idle"
  /\ req.tool = "create_migration_template"
  /\ op' = "create_migration_template"
  /\ res' = createMigrationTemplateHandler(req.args)
  /\ UNCHANGED <<req, mode>>

CallGenerateSmitheryYamlTool ==
  /\ op = "idle"
  /\ req.tool = "generate_smithery_yaml"
  /\ op' = "generate_smithery_yaml"
  /\ res' = generateSmitheryYamlHandler(req.config, req.args)
  /\ UNCHANGED <<req, mode>>

NextHandlers ==
  \/ CallGetMigrationOverview
  \/ CallValidateSmitheryYaml
  \/ CallCreateMigrationTemplate
  \/ CallGenerateSmitheryYamlTool

SpecHandlers == InitHandlers /\ [][NextHandlers]_vars

RegisteredTools ==
  {"get_migration_overview", "validate_smithery_yaml", "create_migration_template",
   "generate_smithery_yaml"}

\* the error the work of a tool call raises before any catch, "" when none
RaisedBy(call) ==
  CASE call.tool = "get_migration_overview" ->
         LET r == generateMigrationOverview(call.args)
         IN  IF r.status = "throw" THEN r.err ELSE ""
    [] call.tool = "create_migration_template" ->
         LET r == generateMigrationTemplate(call.args, call.args.migrationMode)
         IN  IF r.status = "throw" THEN r.err ELSE ""
    [] call.tool = "generate_smithery_yaml" ->
         IF IsNullish(call.config) THEN "TypeError" ELSE ""
    [] OTHER -> ""

ErrorPrefix(tool) ==
  CASE tool = "get_migration_overview" -> "Error generating migration overview"
    [] tool = "validate_smithery_yaml" -> "Error validating smithery.yaml"
    [] tool = "create_migration_template" -> "Error generating migration template"
    [] OTHER -> "Error generating smithery.yaml"

\* C7: each of the four registered tool handlers resolves with a text
\* response for every input; when the generator, the validator or the
\* building of the response raises an error, the response is the text
\* 'Error ...: <message>' with that message, and nothing is propagated to the
\* caller.
C7_HandlersAlwaysResolve ==
  op \in RegisteredTools =>
    /\ res.status = "ok"
    /\ Len(res.text) > 0
    /\ RaisedBy(req) # "" => res = ErrorText(ErrorPrefix(op), RaisedBy(req))
    /\ RaisedBy(req) = "" => res.text[1].k # ErrorPrefix(op)

\* a template request whose schema conversion raises, answered with the error
\* text
C7_Witness ==
  /\ op = "create_migration_template"
  /\ RaisedBy(req) = "TypeError"
  /\ res = ErrorText(ErrorPrefix(op), "TypeError")

Quoted(s) == <<"\"">> \o s \o <<"\"">>

\* C11: every descriptor generateSmitheryYaml emits keeps the descriptor
\* invariant: a typescript runtime comes with no build block, and an http
\* startCommand with no commandFunction, whatever else the request carries.
C11_DescriptorInvariant ==
  op = "generateSmitheryYaml" =>
    /\ res.status = "ok"
    /\ Contains(res.text, Field(0, K_runtime, Quoted(S_typescript)))
         => K_build \notin Range(KeysAt(res.text, 0))
    /\ Contains(StartCommandLines(res.text), Field(2, K_type, Quoted(S_http)))
         => K_commandFunction \notin Range(KeysAt(StartCommandLines(res.text), 2))

\* typescript and http requested together with a dockerfile and a
\* commandFunction
C11_Witness ==
  /\ op = "generateSmitheryYaml"
  /\ req.runtime = JStr(S_typescript)
  /\ req.startCommandType = JStr(S_http)
  /\ Truthy(req.dockerfile)
  /\ Truthy(req.commandFunction)
  /\ Contains(res.text, Field(0, K_runtime, Quoted(S_typescript)))
  /\ Contains(res.text, Field(2, K_type, Quoted(S_http)))


(***************************************************************************)
(* package-json-validation.ts                                               *)
(***************************************************************************)
P_name == <<"n","a","m","e">>
P_version == <<"v","e","r","s","i","o","n">>
P_module == <<"m","o","d","u","l","e">>
P_scripts == <<"s","c","r","i","p","t","s">>
P_dependencies == <<"d","e","p","e","n","d","e","n","c","i","e","s">>
P_devDependencies == <<"d","e","v","D","e","p","e","n","d","e","n","c","i","e","s">>
P_build == <<"b","u","i","l","d">>
P_dev == <<"d","e","v">>
P_start == <<"s","t","a","r","t">>
P_smitheryCli == <<"@","s","m","i","t","h","e","r","y","/","c","l","i">>
P_tsx == <<"t","s","x">>
BuildCommand == <<"n","p","x"," ","@","s","m","i","t","h","e","r","y","/","c","l","i"," ","b","u","i","l","d">>
DevCommand == <<"n","p","x"," ","@","s","m","i","t","h","e","r","y","/","c","l","i"," ","d","e","v">>

\* String.prototype.endsWith
EndsWith(s, suffix) ==
  Len(s) >= Len(suffix) /\ SubSeq(s, Len(s) - Len(suffix) + 1, Len(s)) = suffix

\* ValidationResult before isValid is computed
EmptyValidation ==
  [errors |-> <<>>, warnings |-> <<>>, suggestions |-> <<>>, requiredChanges |-> <<>>]

\* result.errors.push(error); result.requiredChanges.push(change)
PushError(result, error, field, expected, current, action) ==
  [result EXCEPT
     !.errors = Append(@, error),
     !.requiredChanges =
        Append(@, [field |-> field, expected |-> expected, current |-> current, action |-> action])]

PushWarning(result, warning) == [result EXCEPT !.warnings = Append(@, warning)]
PushSuggestion(result, suggestion) == [result EXCEPT !.suggestions = Append(@, suggestion)]

\* one turn of the loop over requiredScripts
CheckScript(scripts, scriptName, field, expectedCommand, result) ==
  LET current == Get(scripts, scriptName)
  IN  IF ~Truthy(current)
      THEN PushError(result, [k |-> "Missing required script", name |-> field],
                     field, JStr(expectedCommand), Undefined, "add")
      ELSE IF current # JStr(expectedCommand)
      THEN PushError(result, [k |-> "Incorrect script", name |-> field, got |-> ToStr(current)],
                     field, JStr(expectedCommand), current, "modify")
      ELSE result

\* The result is the ValidationResult so far in `value`, or the TypeError of
\* scripts.start.includes on a value that has no such method.
validateSmitheryCliScripts(scripts, result) ==
  LET r1 == CheckScript(scripts, P_build, "scripts.build", BuildCommand, result)
      r2 == CheckScript(scripts, P_dev, "scripts.dev", DevCommand, r1)
      start == Get(scripts, P_start)
  IN  IF ~Truthy(start) THEN [status |-> "ok", value |-> r2]
      ELSE IF ~HasIncludes(start) THEN Thrown("TypeError")
      ELSE IF Includes(start, S_stdio)
      THEN [status |-> "ok", value |->
              PushWarning(r2, "Start script appears to use STDIO transport")]
      ELSE [status |-> "ok", value |-> r2]

validateSmitheryCliDependencies(deps, devDeps, result) ==
  LET r1 == IF ~Truthy(Get(devDeps, P_smitheryCli))
            THEN PushError(result, [k |-> "Missing required devDependency", name |-> "@smithery/cli"],
                           "devDependencies.@smithery/cli",
                           JStr(<<"^","1",".","0",".","0"," ","(","o","r"," ","y","o","u","r"," ","p","r","e","f","e","r","r","e","d"," ","v","e","r","s","i","o","n",")">>),
                           Undefined, "add")
            ELSE result
  IN  IF ~Truthy(Get(devDeps, P_tsx))
      THEN PushError(r1, [k |-> "Missing required devDependency", name |-> "tsx"],
                     "devDependencies.tsx",
                     JStr(<<"^","4",".","0",".","0"," ","(","o","r"," ","y","o","u","r"," ","p","r","e","f","e","r","r","e","d"," ","v","e","r","s","i","o","n",")">>),
                     Undefined, "add")
      ELSE r1

validateSmitheryCliPackageJson(packageJson, result) ==
  IF IsNullish(packageJson) THEN Thrown("TypeError")
  ELSE
    LET module == Get(packageJson, P_module)
        r1 == IF ~Truthy(Get(packageJson, P_name))
              THEN PushError(result, [k |-> "Missing required field", name |-> "name"],
                             "name", JStr(<<"y","o","u","r","-","s","e","r","v","e","r","-","n","a","m","e">>), Undefined, "add")
              ELSE result
        r2 == IF ~Truthy(Get(packageJson, P_version))
              THEN PushError(r1, [k |-> "Missing required field", name |-> "version"],
                             "version", JStr(<<"1",".","0",".","0">>), Undefined, "add")
              ELSE r1
        r3 == IF ~Truthy(module)
              THEN PushError(r2, [k |-> "Missing 'module' field required for Smithery CLI", name |-> "module"],
                             "module", JStr(<<".","/","s","r","c","/","i","n","d","e","x",".","t","s">>), Undefined, "add")
              ELSE IF ~EndsWith(module.s, <<".","t","s">>) /\ ~EndsWith(module.s, <<".","j","s">>)
              THEN PushWarning(r2, "Module field should point to your main TypeScript or JavaScript file")
              ELSE r2
        r4 == IF Get(packageJson, K_type) # JStr(P_module)
              THEN PushSuggestion(
                     PushWarning(r3, "Consider setting 'type': 'module' for ES modules support"),
                     "Add type: module to package.json for better ES modules support")
              ELSE r3
        scripted == validateSmitheryCliScripts(
                      OrElse(Get(packageJson, P_scripts), JObj(<<>>, <<>>)), r4)
    IN  IF Truthy(module) /\ module.t # "string" THEN Thrown("TypeError")
        ELSE IF scripted.status = "throw" THEN scripted
        ELSE [status |-> "ok", value |->
                validateSmitheryCliDependencies(
                  OrElse(Get(packageJson, P_dependencies), JObj(<<>>, <<>>)),
                  OrElse(Get(packageJson, P_devDependencies), JObj(<<>>, <<>>)),
                  scripted.value)]

validateCustomContainerPackageJson(packageJson, result) ==
  [status |-> "ok", value |->
     PushSuggestion(result, "Custom container migration allows full flexibility")]

validatePythonContainerPackageJson(packageJson, result) ==
  IF IsNullish(packageJson) THEN Thrown("TypeError")
  ELSE
    LET r1 == IF ~Truthy(Get(packageJson, P_name))
              THEN PushWarning(result, "Consider adding 'name' field for better project identification")
              ELSE result
        r2 == IF ~Truthy(Get(packageJson, P_version))
              THEN PushWarning(r1, "Consider adding 'version' field for better project versioning")
              ELSE r1
    IN  [status |-> "ok", value |->
           PushSuggestion(r2, "For Python projects, ensure requirements.txt or pyproject.toml contains your Python dependencies")]

\* isValid that also asks for no warnings
WithIsValidStrict(result) ==
  [isValid |-> Len(result.errors) = 0 /\ Len(result.warnings) = 0,
   errors |-> result.errors, warnings |-> result.warnings,
   suggestions |-> result.suggestions, requiredChanges |-> result.requiredChanges]

\* result.isValid = result.errors.length === 0
WithIsValid(result) ==
  [isValid |-> Len(result.errors) = 0, errors |-> result.errors, warnings |-> result.warnings,
   suggestions |-> result.suggestions, requiredChanges |-> result.requiredChanges]

performValidation(packageJson, migrationPath) ==
  LET checked ==
        CASE migrationPath = "ts-smithery-cli" ->
               validateSmitheryCliPackageJson(packageJson, EmptyValidation)
          [] migrationPath = "ts-custom-container" ->
               validateCustomContainerPackageJson(packageJson, EmptyValidation)
          [] migrationPath = "py-custom-container" ->
               validatePythonContainerPackageJson(packageJson, EmptyValidation)
          [] OTHER -> [status |-> "ok", value |-> EmptyValidation]
  IN  IF checked.status = "throw" THEN checked
      ELSE [status |-> "ok", value |-> WithIsValid(checked.value)]


\* JSON.parse of the package.json text: a SyntaxError for text that is not
\* JSON (the empty text included), the value otherwise
JSONparse(text) ==
  IF text.kind = "doc" THEN [status |-> "ok", value |-> text.doc] ELSE Thrown("SyntaxError")

Bullets(items) == [i \in 1..Len(items) |-> [k |-> "bullet", item |-> items[i]]]

ChangeLine(change) ==
  [k |-> "change",
   action |-> CASE change.action = "add" -> "Add"
                [] change.action = "modify" -> "Update"
                [] OTHER -> "Remove",
   field |-> change.field,
   expected |-> JSONstringify(change.expected)]

formatValidationResult(result, filePath) ==
  <<[k |-> "status", valid |-> result.isValid, file |-> filePath]>>
  \o (IF Len(result.errors) > 0
      THEN <<Heading(2, "Errors (Must Fix)")>> \o Bullets(result.errors) ELSE <<>>)
  \o (IF Len(result.requiredChanges) > 0
      THEN <<Heading(2, "Required Changes")>>
           \o [i \in 1..Len(result.requiredChanges) |-> ChangeLine(result.requiredChanges[i])]
      ELSE <<>>)
  \o (IF Len(result.warnings) > 0
      THEN <<Heading(2, "Warnings (Recommended)")>> \o Bullets(result.warnings) ELSE <<>>)
  \o (IF Len(result.suggestions) > 0
      THEN <<Heading(2, "Suggestions")>> \o Bullets(result.suggestions) ELSE <<>>)
  \o (IF result.isValid
      THEN <<Heading(2, "Summary"), Line("Your package.json is ready for migration!")>>
      ELSE <<Heading(2, "Next Steps"),
             Line("Fix the errors above before proceeding with migration.")>>)

\* catch (error): the 'Invalid JSON Format' report with the error's message
InvalidJsonFormat(filePath, message) ==
  <<Line("**Invalid JSON Format**"), [k |-> "file", file |-> filePath],
    Line("The package.json file contains invalid JSON syntax:"),
    [k |-> "message", message |-> message],
    Line("Please fix the JSON syntax errors before proceeding with migration.")>>

validatePackageJson(params) ==
  LET packageJson == JSONparse(params.packageJsonContent)
      result == performValidation(packageJson.value, params.migrationPath)
  IN  IF packageJson.status = "throw" THEN Ok(InvalidJsonFormat(params.filePath, packageJson.err))
      ELSE IF result.status = "throw" THEN Ok(InvalidJsonFormat(params.filePath, result.err))
      ELSE Ok(formatValidationResult(result.value, params.filePath))

(***************************************************************************)
(* The package.json validator as operations                                 *)
(***************************************************************************)
\* an object of the given entries, the undefined ones left out
ObjectOf(entries) ==
  LET present == SelectSeq(entries, LAMBDA e : e[2] # Undefined)
  IN  JObj([i \in 1..Len(present) |-> present[i][1]], [i \in 1..Len(present) |-> present[i][2]])

ScriptsPool ==
  { Undefined, JObj(<<>>, <<>>),
    JObj(<<P_build, P_dev>>, <<JStr(BuildCommand), JStr(DevCommand)>>),
    JObj(<<P_build, P_dev>>, <<JStr(<<"t","s","c">>), JStr(DevCommand)>>),
    JObj(<<P_build, P_dev, P_start>>,
         <<JStr(BuildCommand), JStr(DevCommand), JStr(<<"x"," ">> \o S_stdio)>>),
    JObj(<<P_dev>>, <<JStr(DevCommand)>>),
    JObj(<<P_dev, P_start>>, <<JStr(DevCommand), JNum(1)>>) }

DevDependenciesPool ==
  { Undefined,
    JObj(<<P_smitheryCli>>, <<JStr(<<"1">>)>>),
    JObj(<<P_tsx>>, <<JStr(<<"4">>)>>),
    JObj(<<P_smitheryCli, P_tsx>>, <<JStr(<<"1">>), JStr(<<"4">>)>>) }

\* the values a package.json text parses to
PackageJsons ==
  { ObjectOf(<< <<P_name, n>>, <<P_version, v>>, <<P_module, m>>, <<K_type, t>>,
                <<P_scripts, s>>, <<P_devDependencies, d>> >>) :
      n \in {Undefined, JStr(<<"s","r","v">>)},
      v \in {Undefined, JStr(<<"1",".","0",".","0">>)},
      m \in {Undefined, JStr(<<".","/","s","r","c","/","i","n","d","e","x",".","t","s">>), JStr(<<"m",".","p","y">>), JNum(5)},
      t \in {Undefined, JStr(P_module)},
      s \in ScriptsPool,
      d \in DevDependenciesPool }
  \cup { Null, JStr(<<"h","i">>), JArr(<<>>) }

PackageRequests ==
  [ packageJsonContent : {Garbage, EmptyText} \cup { Doc(v) : v \in PackageJsons },
    migrationPath : ValidModes,
    filePath : {"", "package.json"} ]

InitPackage ==
  /\ req \in PackageRequests
  /\ mode = "none"
  /\ op = "idle"
  /\ res = NoResult

CallPerformValidation ==
  /\ op = "idle"
  /\ req.packageJsonContent.kind = "doc"
  /\ op' = "performValidation"
  /\ res' = performValidation(req.packageJsonContent.doc, req.migrationPath)
  /\ UNCHANGED <<req, mode>>

CallValidatePackageJson ==
  /\ op = "idle"
  /\ op' = "validatePackageJson"
  /\ res' = validatePackageJson(req)
  /\ UNCHANGED <<req, mode>>

NextPackage == CallPerformValidation \/ CallValidatePackageJson

SpecPackage == InitPackage /\ [][NextPackage]_vars

\* the value of a field of the package descriptor, two levels deep
PackageField(packageJson, outer, inner) ==
  IF IsNullish(Get(packageJson, outer)) THEN Undefined ELSE Get(Get(packageJson, outer), inner)

\* the rules of the CLI mode that the package descriptor violates, each named
\* by the field it is about
ViolatedRules(packageJson) ==
  { f \in {"name", "version", "module", "scripts.build", "scripts.dev",
           "devDependencies.@smithery/cli", "devDependencies.tsx"} :
      CASE f = "name" -> ~Truthy(Get(packageJson, P_name))
        [] f = "version" -> ~Truthy(Get(packageJson, P_version))
        [] f = "module" -> ~Truthy(Get(packageJson, P_module))
        [] f = "scripts.build" -> PackageField(packageJson, P_scripts, P_build) # JStr(BuildCommand)
        [] f = "scripts.dev" -> PackageField(packageJson, P_scripts, P_dev) # JStr(DevCommand)
        [] f = "devDependencies.@smithery/cli" ->
             ~Truthy(PackageField(packageJson, P_devDependencies, P_smitheryCli))
        [] OTHER -> ~Truthy(PackageField(packageJson, P_devDependencies, P_tsx)) }

\* the field an error is about
ErrorField(error) ==
  IF error.k = "Missing required devDependency" THEN "devDependencies." \o error.name
  ELSE error.name

\* the current value of a script rule's field
CurrentScript(packageJson, field) ==
  PackageField(packageJson, P_scripts, IF field = "scripts.build" THEN P_build ELSE P_dev)

\* C12: in CLI mode the result holds one error paired with one required
\* change for exactly each violated rule (a missing script gives action add,
\* a different one action modify with the current value); isValid is true iff
\* there is no error, whatever the warnings and suggestions; in the two
\* container modes isValid is always true.
C12_PackageValidation ==
  (op = "performValidation" /\ res.status = "ok") =>
    LET r == res.value
        packageJson == req.packageJsonContent.doc
    IN  /\ r.isValid <=> Len(r.errors) = 0
        /\ req.migrationPath = "ts-smithery-cli" =>
             /\ Len(r.errors) = Cardinality(ViolatedRules(packageJson))
             /\ Len(r.requiredChanges) = Len(r.errors)
             /\ { r.requiredChanges[i].field : i \in 1..Len(r.requiredChanges) }
                  = ViolatedRules(packageJson)
             /\ \A i \in 1..Len(r.errors) :
                  LET change == r.requiredChanges[i]
                  IN  /\ ErrorField(r.errors[i]) = change.field
                      /\ change.action \in {"add", "modify"}
                      /\ change.action = "modify" <=>
                           /\ change.field \in {"scripts.build", "scripts.dev"}
                           /\ Truthy(CurrentScript(packageJson, change.field))
                      /\ change.action = "modify" =>
                           change.current = CurrentScript(packageJson, change.field)
                      /\ change.action = "add" => change.current = Undefined
        /\ req.migrationPath # "ts-smithery-cli" => r.isValid /\ Len(r.errors) = 0

\* a descriptor missing module, scripts.build and devDependencies.tsx, in CLI
\* mode
C12_Witness ==
  /\ op = "performValidation"
  /\ req.migrationPath = "ts-smithery-cli"
  /\ res.status = "ok"
  /\ ~res.value.isValid
  /\ ViolatedRules(req.packageJsonContent.doc)
       = {"module", "scripts.build", "devDependencies.tsx"}
  /\ Len(res.value.errors) = 3
  /\ Len(res.value.warnings) > 0

(***************************************************************************)
(* The overview generator as an operation                                   *)
(***************************************************************************)
\* MigrationOverviewParams, the optional flags with their defaults applied
OverviewRequests ==
  [ migrationPath : ValidModes \cup {"local-stdio-only", "go-custom-container"},
    includeBackwardCompatibility : BOOLEAN,
    needsFileSystemAccess : BOOLEAN,
    needsLocalApps : BOOLEAN,
    existingSmitheryYaml : { a.existingSmitheryYaml : a \in OverviewArgs } ]

\* generateMigrationOverview followed by formatMigrationOverview
OverviewAndText(params) ==
  LET overview == generateMigrationOverview(params)
  IN  IF overview.status = "throw" THEN overview
      ELSE [status |-> "ok", err |-> "", text |-> formatMigrationOverview(overview.value),
            plan |-> overview.value]

InitOverview ==
  /\ req \in OverviewRequests
  /\ mode = "none"
  /\ op = "idle"
  /\ res = NoResult

CallGenerateMigrationOverview ==
  /\ op = "idle"
  /\ op' = "generateMigrationOverview"
  /\ res' = OverviewAndText(req)
  /\ UNCHANGED <<req, mode>>

NextOverview == CallGenerateMigrationOverview

SpecOverview == InitOverview /\ [][NextOverview]_vars

\* C13: for the local-stdio-only path the plan is the fixed 'Contact
\* Support' plan, and its text the same text, whatever the flags and the
\* existing descriptor text are.
C13_LocalPathShortCircuit ==
  (op = "generateMigrationOverview" /\ req.migrationPath = "local-stdio-only") =>
    /\ res.status = "ok"
    /\ res.plan.title = "Local STDIO Servers - Contact Support"
    /\ res.plan.filesNeeded = <<>>
    /\ \A other \in OverviewRequests :
         other.migrationPath = "local-stdio-only" => OverviewAndText(other) = res

C13_Witness ==
  /\ op = "generateMigrationOverview"
  /\ req.migrationPath = "local-stdio-only"
  /\ req.includeBackwardCompatibility
  /\ req.needsFileSystemAccess
  /\ req.needsLocalApps
  /\ req.existingSmitheryYaml = Doc(ExampleConfigOnly)
  /\ res.status = "ok"
  /\ res.text[1] = Heading(1, "Local STDIO Servers - Contact Support")

\* the arguments of a get_migration_overview call with both local-need flags
\* cleared
WithoutLocalNeeds(args) ==
  [args EXCEPT !.needsFileSystemAccess = FALSE, !.needsLocalApps = FALSE]

\* C14 as stated: a get_migration_overview call with needsFileSystemAccess or
\* needsLocalApps set answers with an overview that suggests the
\* local-stdio-only path: it differs from the answer to the same call with
\* both flags cleared and carries the local plan.
C14_AsStated ==
  (/\ op = "get_migration_overview"
   /\ req.args.needsFileSystemAccess \/ req.args.needsLocalApps) =>
    /\ res # getMigrationOverviewHandler(WithoutLocalNeeds(req.args))
    /\ Contains(res.text, Heading(1, "Local STDIO Servers - Contact Support"))

(***************************************************************************)
(* sanitizeId as an operation                                               *)
(***************************************************************************)
\* the longest name drawn from the alphabet
MaxNameLen == 5

NameAlphabet == {"a", "B", "7", "-", "!"}

NameInputs ==
  SeqsUpTo(NameAlphabet, MaxNameLen)
  \cup { <<"M","y"," ","T","o","o","l","!"," ","v","2">>, <<"_","_","x","_","_","Y","_","_">> }

InitSanitize ==
  /\ req \in NameInputs
  /\ mode = "none"
  /\ op = "idle"
  /\ res = NoResult

CallSanitizeId ==
  /\ op = "idle"
  /\ op' = "sanitizeId"
  /\ res' = [status |-> "ok", err |-> "", text |-> <<>>, value |-> sanitizeId(req)]
  /\ UNCHANGED <<req, mode>>

NextSanitize == CallSanitizeId

SpecSanitize == InitSanitize /\ [][NextSanitize]_vars

\* C15: sanitizeId is idempotent, and its result has only characters of
\* [a-z0-9-], no two adjacent '-', and no '-' at either end; 'My Tool! v2'
\* gives 'my-tool-v2'.
C15_SanitizeIdIdempotent ==
  op = "sanitizeId" =>
    LET id == res.value
    IN  /\ sanitizeId(id) = id
        /\ \A i \in 1..Len(id) : id[i] \in Range(Lowers) \cup Range(Digits) \cup {"-"}
        /\ \A i \in 1..(Len(id) - 1) : ~(id[i] = "-" /\ id[i+1] = "-")
        /\ Len(id) > 0 => id[1] # "-" /\ id[Len(id)] # "-"
        /\ req = <<"M","y"," ","T","o","o","l","!"," ","v","2">>
             => id = <<"m","y","-","t","o","o","l","-","v","2">>

\* a name with a run of replaced characters inside and at both ends
C15_Witness ==
  /\ op = "sanitizeId"
  /\ req = <<"!","B","-","!","a">>
  /\ res.value = <<"b","-","a">>

(***************************************************************************)
(* The Python generator called with an explicit configSchema                *)
(***************************************************************************)
\* SmitheryMigrationParams with its optional configSchema field filled in
PythonRequests ==
  [ tools : SeqsUpTo(ToolPool, MaxHandlerItems),
    prompts : SeqsUpTo(PromptPool, MaxHandlerItems),
    resources : {<<>>},
    serverName : {"Python Config Server"},
    serverVersion : {"1.0.0"},
    includeBackwardCompatibility : BOOLEAN,
    smitheryYaml : {Absent} \cup { Doc(StartCommandOf(cs)) : cs \in ConfigSchemas },
    configSchema : {Undefined} \cup ConfigSchemas ]

InitPython ==
  /\ req \in PythonRequests
  /\ mode = "none"
  /\ op = "idle"
  /\ res = NoResult

CallPythonGenerator ==
  /\ op = "idle"
  /\ op' = "generatePythonCustomContainerMigration"
  /\ mode' = "py-custom-container"
  /\ res' = generatePythonCustomContainerMigration(req)
  /\ UNCHANGED req

CallPythonThroughDispatcher ==
  /\ op = "idle"
  /\ op' = "generateMigrationTemplate"
  /\ mode' = "py-custom-container"
  /\ res' = generateMigrationTemplate(req, "py-custom-container")
  /\ UNCHANGED req

NextPython == CallPythonGenerator \/ CallPythonThroughDispatcher

SpecPython == InitPython /\ [][NextPython]_vars

\* the request with its configSchema moved into the descriptor text
ThroughDescriptor(params) ==
  [params EXCEPT !.smitheryYaml = Doc(StartCommandOf(params.configSchema)),
                 !.configSchema = Undefined]

\* C16 as stated: a request carrying configSchema with at least one property
\* and no descriptor text gets the request-scoped accessors and the
\* SmitheryConfigMiddleware, the same output as when the schema comes
\* through the descriptor text.
C16_AsStated ==
  (/\ op # "idle"
   /\ ~TextGiven(req.smitheryYaml)
   /\ HasKeys(Get(req.configSchema, K_properties))) =>
    /\ res.status = "ok"
    /\ Contains(res.text, Tok("def get_request_config() -> dict:"))
    /\ Contains(res.text, Tok("class SmitheryConfigMiddleware:"))
    /\ res = generatePythonCustomContainerMigration(ThroughDescriptor(req))

(***************************************************************************)
(* The tools the overviews send the user to                                 *)
(***************************************************************************)
\* the operations the tool modules define a schema and a generator for
ExposedOperations ==
  {"get_migration_overview", "validate_smithery_yaml", "create_migration_template",
   "generate_smithery_yaml", "validate_package_json", "generate_dockerfile"}

\* the tool name quoted after "Use" in a next step, "" when the step names none
ToolNamedIn(step) ==
  CASE step \in { "Use 'create_migration_template' tool with mode 'ts-smithery-cli'",
                  "Use 'create_migration_template' tool with mode 'ts-custom-container'",
                  "Use 'create_migration_template' tool with mode 'py-custom-container'" }
         -> "create_migration_template"
    [] step \in { "Use 'generate_smithery_yaml' tool for smithery.yaml configuration",
                  "Use 'generate_smithery_yaml' tool for container runtime configuration" }
         -> "generate_smithery_yaml"
    [] step = "Use 'validate_package_json' tool with migrationPath 'ts-smithery-cli'"
         -> "validate_package_json"
    [] step \in { "Use 'generate_dockerfile' tool with containerType 'ts-custom-container'",
                  "Use 'generate_dockerfile' tool with containerType 'py-custom-container'" }
         -> "generate_dockerfile"
    [] OTHER -> ""

\* the tools the bullets of a formatted overview tell the user to call
ToolsNamedIn(text) ==
  { ToolNamedIn(text[i].text) : i \in { j \in 1..Len(text) : text[j].k = "bullet" } } \ {""}

\* C17 as stated: every exposed operation is registered, and every tool an
\* overview's Next Steps names is a tool the server registers.
C17_AsStated ==
  (op = "get_migration_overview" /\ res.status = "ok" /\ ContainsKind(res.text, "bullet")) =>
    /\ ToolsNamedIn(res.text) \subseteq RegisteredTools
    /\ ExposedOperations \subseteq RegisteredTools

(***************************************************************************)
(* The startup routine of the emitted custom-container program              *)
(*                                                                          *)
(* req holds the generator's parameters and the environment the emitted     *)
(* program is started in, res the generated program, op the statement the   *)
(* emitted main() executed last, mode the state of the emitted process.     *)
(***************************************************************************)
\* process.env.TRANSPORT of the emitted program, and whether the environment
\* variables pass configSchema.parse
Environments ==
  [ TRANSPORT : {Undefined, JStr(<<>>), JStr(S_http), JStr(S_stdio), JStr(<<"H","T","T","P">>)},
    configValid : BOOLEAN ]

StartupRequests ==
  [ params : [ tools : SeqsUpTo(ToolPool, MaxHandlerItems),
               prompts : {<<>>},
               resources : {<<>>},
               serverName : {"My MCP Server"},
               serverVersion : {"1.0.0"},
               includeBackwardCompatibility : BOOLEAN,
               smitheryYaml : DescriptorTexts ],
    env : Environments ]

\* the text from the first occurrence of tok on, <<>> when it has none
From(text, tok) ==
  IF Contains(text, tok)
  THEN LET first == CHOOSE i \in 1..Len(text) :
                      text[i] = tok /\ \A j \in 1..(i - 1) : text[j] # tok
       IN  SubSeq(text, first, Len(text))
  ELSE <<>>

\* the body of main() in an emitted program
MainBody(text) == From(text, Tok("async function main() {"))

\* main() tests the transport mode before it binds
MainBranches(text) == Contains(MainBody(text), Tok("if (transport === 'http') {"))

ElseBranch(text) == From(MainBody(text), Tok("} else {"))

\* const transport = process.env.TRANSPORT || 'stdio'
TransportOf(env) == OrElse(env.TRANSPORT, JStr(S_stdio))

\* what main() of the emitted program does in an environment
MainOutcome(text, env) ==
  IF MainBranches(text) /\ TransportOf(env) # JStr(S_http)
  THEN IF Contains(ElseBranch(text), Tok("process.exit(1);")) THEN "process.exit"
       ELSE IF /\ Contains(ElseBranch(text), Tok("const config = configSchema.parse({"))
               /\ ~env.configValid
            THEN "process.exit"
            ELSE IF Contains(ElseBranch(text), Tok("await server.connect(stdioTransport);"))
                 THEN "server.connect"
                 ELSE "return"
  ELSE IF Contains(MainBody(text), Tok("app.listen(PORT, ...);")) THEN "app.listen"
       ELSE "return"

InitStartup ==
  /\ req \in StartupRequests
  /\ mode = "none"
  /\ op = "idle"
  /\ res = NoResult

EmitCustomContainer ==
  /\ op = "idle"
  /\ op' = "generateCustomContainerMigration"
  /\ res' = generateCustomContainerMigration(req.params)
  /\ UNCHANGED <<req, mode>>

\* the operator starts the emitted program: main() is called
StartEmitted ==
  /\ op = "generateCustomContainerMigration"
  /\ res.status = "ok"
  /\ op' = "main"
  /\ mode' = "running"
  /\ UNCHANGED <<req, res>>

MainListens ==
  /\ op = "main"
  /\ MainOutcome(res.text, req.env) = "app.listen"
  /\ op' = "app.listen"
  /\ mode' = "listening"
  /\ UNCHANGED <<req, res>>

MainConnectsStdio ==
  /\ op = "main"
  /\ MainOutcome(res.text, req.env) = "server.connect"
  /\ op' = "server.connect"
  /\ mode' = "stdio"
  /\ UNCHANGED <<req, res>>

\* console.error and process.exit(1), from the else branch or from main().catch
MainExits ==
  /\ op = "main"
  /\ MainOutcome(res.text, req.env) = "process.exit"
  /\ op' = "process.exit"
  /\ mode' = "exited"
  /\ UNCHANGED <<req, res>>

NextStartup ==
  \/ EmitCustomContainer
  \/ StartEmitted
  \/ MainListens
  \/ MainConnectsStdio
  \/ MainExits

SpecStartup == InitStartup /\ [][NextStartup]_vars

\* main() of the emitted program has run to its last statement
Started == op \in {"app.listen", "server.connect", "process.exit"}

\* the stdio branch parses the environment with the configuration schema
ParsesEnvironment ==
  LET configSchema == ExtractedConfigSchema(req.params).value
  IN  HasKeys(configSchema) /\ Truthy(Get(configSchema, K_properties))

\* C18 (amended): without backward compatibility the emitted startup binds the
\* listening socket whatever TRANSPORT is, and never exits; with backward
\* compatibility TRANSPORT=http binds, and any other value connects the stdio
\* transport, or exits when the environment fails configSchema.parse.
C18_StartupByTransport ==
  /\ op = "main" => mode = "running"
  /\ Started =>
       IF ~req.params.includeBackwardCompatibility \/ TransportOf(req.env) = JStr(S_http)
       THEN mode = "listening"
       ELSE IF ParsesEnvironment /\ ~req.env.configValid
            THEN mode = "exited"
            ELSE mode = "stdio"

\* started without backward compatibility and with TRANSPORT=stdio, and listening
C18_Witness ==
  /\ Started
  /\ ~req.params.includeBackwardCompatibility
  /\ req.env.TRANSPORT = JStr(S_stdio)
  /\ mode = "listening"

\* C18 as stated: TRANSPORT=http binds; without backward compatibility any
\* other value ends the process with no socket bound; with backward
\* compatibility any other value starts the stdio transport.
C18_AsStated ==
  Started =>
    IF TransportOf(req.env) = JStr(S_http) THEN mode = "listening"
    ELSE IF req.params.includeBackwardCompatibility THEN mode = "stdio"
         ELSE mode = "exited"

(***************************************************************************)
(* Loading the module emitted by the CLI-managed TypeScript generator       *)
(*                                                                          *)
(* req.load says how the emitted module is loaded: "executed" as the        *)
(* program's entry point, "imported" by the hosting CLI for createServer.   *)
(***************************************************************************)
ModuleRequests ==
  [ params : [ tools : SeqsUpTo(ToolPool, MaxHandlerItems),
               prompts : {<<>>},
               resources : {<<>>},
               serverName : {"My MCP Server"},
               serverVersion : {"1.0.0"},
               includeBackwardCompatibility : BOOLEAN,
               smitheryYaml : DescriptorTexts ],
    load : {"executed", "imported"},
    env : [ configValid : BOOLEAN ] ]

\* the module's top level calls main() when it is evaluated in this way; the
\* emitted call stands alone, under no test of how the module was loaded
InvokesMainOnLoad(text, load) ==
  /\ Contains(text, Tok("main().catch(...)"))
  /\ Contains(text, Tok("if (import.meta.url === entry) {")) => load = "executed"

InitModule ==
  /\ req \in ModuleRequests
  /\ mode = "none"
  /\ op = "idle"
  /\ res = NoResult

EmitSmitheryCli ==
  /\ op = "idle"
  /\ op' = "generateSmitheryCliMigration"
  /\ res' = generateSmitheryCliMigration(req.params)
  /\ UNCHANGED <<req, mode>>

\* the module's top-level statements are evaluated
LoadModule ==
  /\ op = "generateSmitheryCliMigration"
  /\ res.status = "ok"
  /\ op' = IF InvokesMainOnLoad(res.text, req.load) THEN "main" ELSE "loaded"
  /\ mode' = "loaded"
  /\ UNCHANGED <<req, res>>

ModuleMainConnectsStdio ==
  /\ op = "main"
  /\ Contains(MainBody(res.text), Tok("const config = configSchema.parse({"))
       => req.env.configValid
  /\ op' = "server.connect"
  /\ mode' = "stdio"
  /\ UNCHANGED <<req, res>>

\* configSchema.parse rejects the environment: main().catch logs and exits
ModuleMainExits ==
  /\ op = "main"
  /\ Contains(MainBody(res.text), Tok("const config = configSchema.parse({"))
  /\ ~req.env.configValid
  /\ op' = "process.exit"
  /\ mode' = "exited"
  /\ UNCHANGED <<req, res>>

NextModule ==
  \/ EmitSmitheryCli
  \/ LoadModule
  \/ ModuleMainConnectsStdio
  \/ ModuleMainExits

SpecModule == InitModule /\ [][NextModule]_vars

\* C19 as stated: with includeBackwardCompatibility=true the stdio bootstrap
\* runs only when the module is executed directly; importing the module does
\* not invoke main and connects no stdio transport.
C19_AsStated ==
  (req.params.includeBackwardCompatibility /\ req.load = "imported") =>
    /\ op \notin {"main", "server.connect", "process.exit"}
    /\ mode \notin {"stdio", "exited"}

(***************************************************************************)
(* One request to the /mcp handler of the emitted custom-container program  *)
(*                                                                          *)
(* res holds the emitted program, req the request and what its awaited      *)
(* calls will do, mode the state of the request: where the handler is       *)
(* suspended, what it has constructed, and whether the client connection    *)
(* has closed.  The statements between two awaits run in one step.          *)
(***************************************************************************)
McpRequests ==
  [ params : [ tools : {<<>>}, prompts : {<<>>}, resources : {<<>>},
               serverName : {"My MCP Server"},
               serverVersion : {"1.0.0"},
               includeBackwardCompatibility : BOOLEAN,
               smitheryYaml : DescriptorTexts ],
    \* req.query.config: missing, not the base64 of a JSON text, or decodable
    configParam : {"absent", "undecodable", "decodable"},
    \* configSchema.parse accepts the decoded configuration
    configValid : BOOLEAN,
    connect : {"resolves", "rejects"},
    handleRequest : {"resolves", "rejects", "rejects after headers"} ]

\* the statements of the handler's try block
HandlerBody(text) ==
  LET handler == From(text, Tok("try {"))
      catch == CHOOSE i \in 1..Len(handler) :
                 handler[i] = Tok("} catch (error) {")
                 /\ \A j \in 1..(i - 1) : handler[j] # Tok("} catch (error) {")
  IN  SubSeq(handler, 2, catch - 1)

NoRequest ==
  [phase |-> "none", at |-> 0, server |-> "none", transport |-> "none", listener |-> FALSE,
   connectionClosed |-> FALSE, serverClosed |-> FALSE, transportClosed |-> FALSE,
   response |-> "none"]

\* catch (error): the 500 JSON-RPC error unless the headers are out
Caught(st, headersSent) ==
  [st EXCEPT !.phase = "caught",
             !.response = IF headersSent THEN "partial" ELSE "500 Internal server error"]

IsAwait(stmt) ==
  stmt \in {Tok("await server.connect(transport);"),
            Tok("await transport.handleRequest(req, res, req.body);")}

\* run the synchronous statements from body[i] on, up to the next await
RECURSIVE RunFrom(_, _, _, _)
RunFrom(st, body, i, request) ==
  IF i > Len(body) THEN [st EXCEPT !.phase = "returned", !.at = i]
  ELSE
    CASE body[i] = Tok("const rawConfig = parseConfig(req);") ->
           IF request.configParam = "undecodable" THEN Caught(st, FALSE)
           ELSE RunFrom(st, body, i + 1, request)
      [] body[i] = Tok("const config = configSchema.parse(rawConfig);") ->
           IF ~request.configValid THEN Caught(st, FALSE)
           ELSE RunFrom(st, body, i + 1, request)
      [] body[i] \in {Tok("const server = createServer({ config });"),
                      Tok("const server = createServer();")} ->
           RunFrom([st EXCEPT !.server = "constructed"], body, i + 1, request)
      [] body[i] = Tok("const transport = new StreamableHTTPServerTransport(...);") ->
           RunFrom([st EXCEPT !.transport = "constructed"], body, i + 1, request)
      [] body[i] = Tok("res.on('close', () => { transport.close(); server.close(); });") ->
           RunFrom([st EXCEPT !.listener = TRUE], body, i + 1, request)
      [] IsAwait(body[i]) -> [st EXCEPT !.phase = "awaiting", !.at = i]
      [] OTHER -> RunFrom(st, body, i + 1, request)

InitMcp ==
  /\ req \in McpRequests
  /\ mode = NoRequest
  /\ op = "idle"
  /\ res = NoResult

EmitMcpProgram ==
  /\ op = "idle"
  /\ op' = "generateCustomContainerMigration"
  /\ res' = generateCustomContainerMigration(req.params)
  /\ UNCHANGED <<req, mode>>

\* Express calls the handler: it runs to its first await, or to its catch
RequestArrives ==
  /\ op = "generateCustomContainerMigration"
  /\ res.status = "ok"
  /\ op' = "app.all('/mcp')"
  /\ mode' = RunFrom(NoRequest, HandlerBody(res.text), 1, req)
  /\ UNCHANGED <<req, res>>

\* the promise of server.connect settles and the handler goes on
ConnectSettles ==
  /\ mode.phase = "awaiting"
  /\ HandlerBody(res.text)[mode.at] = Tok("await server.connect(transport);")
  /\ op' = "server.connect"
  /\ mode' = IF req.connect = "rejects" THEN Caught(mode, FALSE)
             ELSE RunFrom(mode, HandlerBody(res.text), mode.at + 1, req)
  /\ UNCHANGED <<req, res>>

\* the promise of transport.handleRequest settles and the handler goes on
HandleRequestSettles ==
  /\ mode.phase = "awaiting"
  /\ HandlerBody(res.text)[mode.at] = Tok("await transport.handleRequest(req, res, req.body);")
  /\ op' = "transport.handleRequest"
  /\ mode' = CASE req.handleRequest = "rejects" -> Caught(mode, FALSE)
               [] req.handleRequest = "rejects after headers" -> Caught(mode, TRUE)
               [] OTHER -> RunFrom([mode EXCEPT !.response = "sent"],
                                   HandlerBody(res.text), mode.at + 1, req)
  /\ UNCHANGED <<req, res>>

\* the client connection closes: res emits 'close', once, to the listeners
\* registered by then
ConnectionCloses ==
  /\ mode.phase # "none"
  /\ ~mode.connectionClosed
  /\ mode' = [mode EXCEPT !.connectionClosed = TRUE,
                          !.transportClosed = mode.listener,
                          !.serverClosed = mode.listener]
  /\ UNCHANGED <<req, op, res>>

NextMcp ==
  \/ EmitMcpProgram
  \/ RequestArrives
  \/ ConnectSettles
  \/ HandleRequestSettles
  \/ ConnectionCloses

SpecMcp == InitMcp /\ [][NextMcp]_vars

\* the handler of the emitted program decodes and validates the configuration
DecodesConfig == HasKeys(ExtractedConfigSchema(req.params).value)

ConfigFails == DecodesConfig /\ (req.configParam = "undecodable" \/ ~req.configValid)

\* C20: a server and a transport are constructed per request, together and
\* after the configuration is decoded and validated; once the client
\* connection has closed, every server and transport constructed for the
\* request has been closed, wherever the handler was; a configuration that
\* fails to decode or validate gets the 500 response and no server.
C20_TeardownOnClose ==
  mode.phase # "none" =>
    /\ (mode.server = "constructed") = (mode.transport = "constructed")
    /\ (mode.server = "constructed") = ~ConfigFails
    /\ mode.server = "constructed" => mode.listener
    /\ (mode.connectionClosed /\ mode.server = "constructed")
         => mode.transportClosed /\ mode.serverClosed
    /\ ConfigFails => /\ mode.phase = "caught"
                      /\ mode.response = "500 Internal server error"
                      /\ mode.server = "none"

\* the connection closed while server.connect was pending, then connect rejected
C20_Witness ==
  /\ op = "server.connect"
  /\ mode.phase = "caught"
  /\ mode.connectionClosed
  /\ mode.transportClosed /\ mode.serverClosed
  /\ DecodesConfig

(***************************************************************************)
(* What hasConfig tests                                                     *)
(***************************************************************************)
\* the extracted schema is an object with at least one key of its own
ExtractedHasOwnKeys == Truthy(Extracted) /\ Len(Keys(Extracted)) > 0

\* the extracted schema declares at least one property
ExtractedDeclaresProperties ==
  /\ Truthy(Extracted)
  /\ Truthy(Get(Extracted, K_properties))
  /\ Len(Keys(Get(Extracted, K_properties))) > 0

\* the parts of an output that hasConfig gates
HasConfigParts(text) ==
  CASE mode = "ts-custom-container" ->
         /\ Contains(text, Tok("function parseConfig(req: Request) {...}"))
         /\ Contains(text, Tok("const config = configSchema.parse(rawConfig);"))
    [] mode = "py-custom-container" ->
         /\ Contains(text, Tok("def get_config_value(key: str, default=None):"))
         /\ Contains(text, Tok("app = SmitheryConfigMiddleware(app)"))
    [] OTHER -> FALSE

\* C21 (amended): in the custom-container TypeScript and Python generators
\* the config parser or accessors and the middleware are emitted iff the
\* extracted schema has at least one key of its own, whether or not it
\* declares properties; a schema with only "type: object" counts as config.
C21_HasConfigCountsKeys ==
  (Generated("ts-custom-container") \/ Generated("py-custom-container")) =>
    (HasConfigParts(res.text) <=> ExtractedHasOwnKeys)

\* a schema with keys and no properties, and the config parts are in the output
C21_Witness ==
  /\ Generated("py-custom-container")
  /\ Extracted = JObj(<<K_type>>, <<JStr(S_object)>>)
  /\ HasConfigParts(res.text)

\* C21 as stated: the config parts are emitted iff the extracted schema
\* declares at least one property.
C21_AsStated ==
  (Generated("ts-custom-container") \/ Generated("py-custom-container")) =>
    (HasConfigParts(res.text) <=> ExtractedDeclaresProperties)

(***************************************************************************)
(* What validate_smithery_yaml accepts                                      *)
(***************************************************************************)
\* the value YAML.parse made of the text in hand, for a text that parses
ParsedYaml == YAMLparse(req.args.yamlContent).value

YamlParsed ==
  /\ op = "validate_smithery_yaml"
  /\ YAMLparse(req.args.yamlContent).status = "ok"

ReportsValid == res.text = <<Line("Valid smithery.yaml configuration")>>

\* the startCommand of an object, Undefined for any other value
StartCommandIn(v) == IF v.t = "object" THEN Get(v, K_startCommand) ELSE Undefined

FieldOf(v, key) == IF v.t = "object" THEN Get(v, key) ELSE Undefined

\* the constrained DeploymentDescriptor shape
DeploymentDescriptorShape(v) ==
  LET startCommand == StartCommandIn(v)
      type == FieldOf(startCommand, K_type)
  IN  /\ type \in {JStr(S_http), JStr(S_stdio)}
      /\ type = JStr(S_stdio) => FieldOf(startCommand, K_commandFunction) # Undefined
      /\ type = JStr(S_http) => FieldOf(startCommand, K_commandFunction) = Undefined
      /\ FieldOf(v, K_runtime) = JStr(S_typescript) => FieldOf(v, K_build) = Undefined

SchemaNodeTypes ==
  {JStr(S_string), JStr(S_number), JStr(S_integer), JStr(S_boolean), JStr(S_array),
   JStr(S_object)}

\* an object schema whose properties are plain nodes of the six types
ObjectSchemaOfNodes(configSchema) ==
  /\ configSchema.t = "object"
  /\ Get(configSchema, K_type) = JStr(S_object)
  /\ OptionalStringArray(Get(configSchema, K_required))
  /\ OptionalString(Get(configSchema, K_description))
  /\ LET properties == Get(configSchema, K_properties)
     IN  /\ properties.t = "object"
         /\ \A i \in 1..Len(properties.vals) :
              /\ properties.vals[i].t = "object"
              /\ Get(properties.vals[i], K_type) \in SchemaNodeTypes
              /\ OptionalString(Get(properties.vals[i], K_description))

\* a container descriptor that has nothing but a well-formed http startCommand
HttpContainerDescriptor(v) ==
  /\ v.t = "object"
  /\ Keys(v) \in {<<K_startCommand>>, <<K_runtime, K_startCommand>>}
  /\ Get(v, K_runtime) \in {Undefined, JStr(S_container)}
  /\ Get(v, K_startCommand).t = "object"
  /\ Get(Get(v, K_startCommand), K_type) = JStr(S_http)

\* C23 as stated: a container descriptor whose startCommand.configSchema is
\* an object schema with properties of any of the six schema-node types is
\* accepted, and so is an http startCommand without configSchema and
\* exampleConfig.
C23_AsStated ==
  (YamlParsed /\ HttpContainerDescriptor(ParsedYaml)) =>
    LET configSchema == Get(Get(ParsedYaml, K_startCommand), K_configSchema)
    IN  (configSchema = Undefined \/ ObjectSchemaOfNodes(configSchema)) => ReportsValid

(***************************************************************************)
(* When validatePackageJson reports invalid JSON                            *)
(***************************************************************************)
ReportsInvalidJson == Contains(res.text, Line("**Invalid JSON Format**"))

\* C24 as stated: validatePackageJson never throws; it returns the Invalid
\* JSON Format report, with the parser's message, iff the text fails to parse
\* as JSON, and the rule-set's validation report whenever the text parses.
C24_AsStated ==
  op = "validatePackageJson" =>
    LET packageJson == JSONparse(req.packageJsonContent)
    IN  /\ res.status = "ok"
        /\ ReportsInvalidJson <=> packageJson.status = "throw"
        /\ packageJson.status = "throw" =>
             res.text = InvalidJsonFormat(req.filePath, packageJson.err)
        /\ packageJson.status = "ok" =>
             /\ performValidation(packageJson.value, req.migrationPath).status = "ok"
             /\ res.text = formatValidationResult(
                             performValidation(packageJson.value, req.migrationPath).value,
                             req.filePath)

(***************************************************************************)
(* What needsSessionConfig depends on and what depends on it                *)
(***************************************************************************)
\* the existing descriptor text is supplied, parses, and its startCommand has
\* a configSchema or an exampleConfig with at least one key
SessionConfigDetected ==
  /\ req.existingSmitheryYaml.kind = "doc"
  /\ LET startCommand == StartCommandIn(req.existingSmitheryYaml.doc)
     IN  \/ HasKeys(FieldOf(startCommand, K_configSchema))
         \/ HasKeys(FieldOf(startCommand, K_exampleConfig))

MiddlewareFile ==
  File("src/middleware.py",
       "Custom middleware for Smithery configuration handling (access tokens, session settings)",
       TRUE, TRUE)

InSeq(x, s) == \E i \in 1..Len(s) : s[i] = x

\* the deployment steps of the Python plan after their numbers
PythonStepBodies ==
  { ". Generate FastMCP-based src/main.py with HTTP transport",
    ". Create src/middleware.py for configuration handling",
    ". Create custom Dockerfile with Python and dependency management",
    ". Update pyproject.toml with FastMCP and required dependencies",
    ". Create smithery.yaml with container runtime configuration",
    ". Test locally: 'uv sync && docker build -t server . && docker run -p 8081:8081 -e PORT=8081 server'",
    ". Push changes to your GitHub repository",
    ". Wait a few minutes for auto-deploy, or manually trigger deployment" }

LocalOnlyStdio == req.startCommandType = JStr(S_stdio) /\ Truthy(req.commandFunction)

\* the lines that follow the line of key at indent 2 in the startCommand
\* block, up to the next key of the block
ValueLinesOf(key) ==
  LET lines == StartCommandLines(res.text)
      at == CHOOSE i \in 1..Len(lines) : lines[i] = Block(2, key)
      later == { j \in (at+1)..Len(lines) :
                   lines[j].k \in {"field", "block"} /\ lines[j].indent = 2 }
      stop == IF later = {} THEN Len(lines) + 1 ELSE CHOOSE j \in later : \A l \in later : j <= l
  IN  SubSeq(lines, at + 1, stop - 1)

\* C26: for a runtime other than typescript, generateSmitheryYaml writes
\* neither runtime nor build for a local-only stdio server; otherwise it
\* writes runtime when given and a build block iff dockerfile or
\* dockerBuildPath is given. The startCommand block with type, configSchema
\* and exampleConfig is always written, the last two as {} when absent or
\* empty.
C26_LocalOnlyStdioOmitsRuntime ==
  op = "generateSmitheryYaml" =>
    LET top == Range(KeysAt(res.text, 0))
        inner == Range(KeysAt(StartCommandLines(res.text), 2))
    IN  /\ req.runtime # JStr(S_typescript) =>
             IF LocalOnlyStdio
             THEN K_runtime \notin top /\ K_build \notin top
             ELSE /\ K_runtime \in top <=> req.runtime # Undefined
                  /\ K_build \in top <=> (Truthy(req.dockerfile) \/ Truthy(req.dockerBuildPath))
        /\ K_startCommand \in top
        /\ {K_type, K_configSchema, K_exampleConfig} \subseteq inner
        /\ (req.configSchema \in {Undefined, JObj(<<>>, <<>>)})
             <=> (ValueLinesOf(K_configSchema) = <<[k |-> "{}", indent |-> 4]>>)
        /\ (req.exampleConfig \in {Undefined, JObj(<<>>, <<>>)})
             <=> (ValueLinesOf(K_exampleConfig) = <<[k |-> "{}", indent |-> 4]>>)

\* a container runtime with a dockerfile asked for a local-only stdio server
C26_Witness ==
  /\ op = "generateSmitheryYaml"
  /\ req.runtime = JStr(S_container)
  /\ Truthy(req.dockerfile)
  /\ LocalOnlyStdio
  /\ KeysAt(res.text, 0) = <<K_startCommand>>

(***************************************************************************)
(* generateZodSchemaFromJson as an operation                                *)
(***************************************************************************)
\* the most properties a schema drawn for the builder has
MaxProperties == 2

PropertyNames == <<apiKey, debug, timeout, retries>>

PropertyPool ==
  { PropApiKey, PropDebug, PropTimeout, PropRetries, PropRegion, PropTags, PropWhen,
    JObj(<<K_type>>, <<JStr(S_object)>>),
    JObj(<<K_type, K_default>>, <<JStr(S_string), Null>>),
    JObj(<<K_description>>, <<JStr(<<>>)>>) }

\* the shapes of required the builder reads
RequiredPool ==
  { Undefined, JArr(<<>>), JArr(<<JStr(apiKey)>>), JArr(<<JStr(debug), JStr(apiKey)>>) }

ZodSchemas ==
  ConfigSchemas \cup
  { ObjectOf(<<<<K_type, JStr(S_object)>>, <<K_required, required>>,
               <<K_properties, JObj(SubSeq(PropertyNames, 1, Len(props)), props)>>>>) :
      required \in RequiredPool, props \in SeqsUpTo(PropertyPool, MaxProperties) }

InitZod ==
  /\ req \in ZodSchemas
  /\ mode = "none"
  /\ op = "idle"
  /\ res = NoResult

CallGenerateZodSchemaFromJson ==
  /\ op = "idle"
  /\ op' = "generateZodSchemaFromJson"
  /\ res' = generateZodSchemaFromJson(req, "  ")
  /\ UNCHANGED <<req, mode>>

NextZod == CallGenerateZodSchemaFromJson

SpecZod == InitZod /\ [][NextZod]_vars

\* the builder call the claim names for each type
BuilderFor ==
  [ty \in {S_string, S_number, S_integer, S_boolean, S_array, S_object} |->
     CASE ty = S_string -> "z.string()"
       [] ty = S_number -> "z.number()"
       [] ty = S_integer -> "z.number().int()"
       [] ty = S_boolean -> "z.boolean()"
       [] ty = S_array -> "z.array(z.any())"
       [] ty = S_object -> "z.record(z.any())"]

Has(zodType, p) == \E i \in 1..Len(zodType) : zodType[i].p = p

\* the names listed in required, none when required is missing
RequiredNames(schema) ==
  LET required == Get(schema, K_required)
  IN  IF required.t = "array"
      THEN { required.items[i].s : i \in { j \in 1..Len(required.items) :
                                             required.items[j].t = "string" } }
      ELSE {}

\* C27: generateZodSchemaFromJson gives one line per property in the order of
\* the mapping, the builder chosen by type (unknown for any other type),
\* .default(<literal>) iff the property has a default (strings quoted, others
\* string-coerced), .optional() iff it has no default and is not in required,
\* never both, and .describe(...) last iff a description is present.
C27_ZodLines ==
  (op = "generateZodSchemaFromJson" /\ res.status = "ok"
   /\ Get(req, K_required).t \in {"undefined", "array"}) =>
    LET properties == OrElse(Get(req, K_properties), JObj(<<>>, <<>>))
    IN  /\ Len(res.text) = Len(Keys(properties))
        /\ \A i \in 1..Len(res.text) :
             LET line == res.text[i]
                 prop == properties.vals[i]
                 type == Get(prop, K_type)
                 d == Get(prop, K_default)
                 n == Len(line.zodType)
             IN  /\ line.key = properties.keys[i]
                 /\ line.zodType[1].p = IF type.t = "string" /\ type.s \in DOMAIN BuilderFor
                                        THEN BuilderFor[type.s] ELSE "z.unknown()"
                 /\ Has(line.zodType, ".default") <=> d # Undefined
                 /\ Has(line.zodType, ".optional()")
                      <=> (d = Undefined /\ line.key \notin RequiredNames(req))
                 /\ ~(Has(line.zodType, ".default") /\ Has(line.zodType, ".optional()"))
                 /\ d # Undefined =>
                      line.zodType[2].arg = IF d.t = "string" THEN Quoted(d.s) ELSE ToStr(d)
                 /\ Has(line.zodType, ".describe") <=> Truthy(Get(prop, K_description))
                 /\ \A j \in 1..n : line.zodType[j].p = ".describe" => j = n

\* a required property with a description and an optional one with a default
C27_Witness ==
  /\ op = "generateZodSchemaFromJson"
  /\ res.status = "ok"
  /\ Len(res.text) = 2
  /\ req = ObjectSchema(JArr(<<JStr(apiKey)>>), <<apiKey, debug>>, <<PropApiKey, PropDebug>>)
  /\ Len(res.text[1].zodType) = 2 /\ res.text[1].zodType[2].p = ".describe"
  /\ res.text[2].zodType[2].p = ".default"

(***************************************************************************)
(* The Python function identifiers derived from request names               *)
(***************************************************************************)
RegistrationKinds == {"tool", "prompt", "resource"}

InitFunctionName ==
  /\ req \in NameInputs
  /\ mode \in RegistrationKinds
  /\ op = "idle"
  /\ res = NoResult

CallPythonToolsCode ==
  /\ op = "idle"
  /\ mode = "tool"
  /\ op' = "generatePythonToolsCode"
  /\ res' = generatePythonToolsCode(
              <<[name |-> req, description |-> "d", inputSchema |-> Undefined]>>, Undefined)
  /\ UNCHANGED <<req, mode>>

CallPythonPromptsCode ==
  /\ op = "idle"
  /\ mode = "prompt"
  /\ op' = "generatePythonPromptsCode"
  /\ res' = Ok(generatePythonPromptsCode(
                 <<[name |-> req, description |-> "d", template |-> "",
                    argsSchema |-> Undefined]>>))
  /\ UNCHANGED <<req, mode>>

CallPythonResourcesCode ==
  /\ op = "idle"
  /\ mode = "resource"
  /\ op' = "generatePythonResourcesCode"
  /\ res' = Ok(generatePythonResourcesCode(
                 <<[name |-> req, uri |-> <<"f","i","l","e",":","/","/","l">>,
                    description |-> "d", mimeType |-> ""]>>))
  /\ UNCHANGED <<req, mode>>

NextFunctionName ==
  \/ CallPythonToolsCode
  \/ CallPythonPromptsCode
  \/ CallPythonResourcesCode

SpecFunctionName == InitFunctionName /\ [][NextFunctionName]_vars

\* the def lines of an emitted registration block
DefLines(text) ==
  { i \in 1..Len(text) : text[i].k \in {"@mcp.tool()", "@mcp.prompt()", "@mcp.resource"} }

UsableIdentifier(id) ==
  /\ id # <<>>
  /\ id[1] \notin Range(Digits)
  /\ \A i \in 1..Len(id) : id[i] \in Range(Lowers) \cup Range(Digits) \cup {"_"}

\* C28: the function identifier derived from every accepted tool, prompt and
\* resource name is non-empty, does not start with a digit and has only
\* characters of [a-z0-9_].
C28_AsStated ==
  op # "idle" =>
    \A i \in DefLines(res.text) : UsableIdentifier(res.text[i].functionName)

\* what does hold of the identifier: its characters
C28_IdentifierCharacters ==
  op # "idle" =>
    \A i \in DefLines(res.text) :
      \A j \in 1..Len(res.text[i].functionName) :
        res.text[i].functionName[j] \in Range(Lowers) \cup Range(Digits) \cup {"_"}

(***************************************************************************)
(* Order of the definitions in the Python module                            *)
(***************************************************************************)
\* the places of a line in the emitted text
PlacesOf(text, tok) == { i \in 1..Len(text) : text[i] = tok }

MainInvocation == Tok("if __name__ == __main__: main()")

MiddlewareApplied == Tok("app = SmitheryConfigMiddleware(app)")

MiddlewareClass == Tok("class SmitheryConfigMiddleware:")

\* C29: in every Python generator output the definitions main() uses come
\* before the module-level invocation of main(); when the middleware is
\* applied in main(), class SmitheryConfigMiddleware is defined before it.
C29_AsStated ==
  (Generated("py-custom-container") /\ PlacesOf(res.text, MiddlewareApplied) # {}) =>
    \E c \in PlacesOf(res.text, MiddlewareClass) :
      \A m \in PlacesOf(res.text, MainInvocation) : c < m

\* what does hold: def main() and the registrations precede the invocation
C29_MainDefinedFirst ==
  Generated("py-custom-container") =>
    /\ PlacesOf(res.text, MainInvocation) # {}
    /\ \A m \in PlacesOf(res.text, MainInvocation) :
         /\ \E d \in PlacesOf(res.text, Tok("def main():")) : d < m
         /\ \A i \in DefLines(res.text) : i < m

(***************************************************************************)
(* The emitted descriptor read back by the validator                        *)
(***************************************************************************)
\* the characters between the quotes of a double-quoted scalar
RECURSIVE Unescape(_)
Unescape(s) ==
  IF s = <<>> THEN <<>>
  ELSE IF s[1] = "\\" /\ Len(s) >= 2 THEN <<s[2]>> \o Unescape(SubSeq(s, 3, Len(s)))
  ELSE <<s[1]>> \o Unescape(Tail(s))

RECURSIVE DigitsToNum(_)
DigitsToNum(s) ==
  IF s = <<>> THEN 0
  ELSE 10 * DigitsToNum(SubSeq(s, 1, Len(s) - 1)) + (IndexOf(s[Len(s)], Digits) - 1)

\* YAML.parse of one scalar as the generator writes scalars
ReadScalar(s) ==
  IF Len(s) >= 2 /\ s[1] = "\"" /\ s[Len(s)] = "\"" THEN JStr(Unescape(SubSeq(s, 2, Len(s) - 1)))
  ELSE IF s = <<"t","r","u","e">> THEN JBool(TRUE)
  ELSE IF s = <<"f","a","l","s","e">> THEN JBool(FALSE)
  ELSE IF s = <<"n","u","l","l">> \/ s = <<>> THEN Null
  ELSE IF \A i \in 1..Len(s) : s[i] \in Range(Digits) THEN JNum(DigitsToNum(s))
  ELSE IF s = <<"{","}">> THEN JObj(<<>>, <<>>)
  ELSE IF s = <<"[","]">> THEN JArr(<<>>)
  ELSE JStr(s)

\* the lines of the emitted text that carry content (comments carry none)
ContentLines(text) == SelectSeq(text, LAMBDA x : "indent" \in DOMAIN x)

\* YAML.parse of the lines lo..hi, the node they spell
RECURSIVE ReadNode(_, _, _)
ReadNode(lines, lo, hi) ==
  IF lo > hi THEN Null
  ELSE IF lines[lo].k = "{}" THEN JObj(<<>>, <<>>)
  ELSE IF lines[lo].k = "literal" THEN ReadScalar(lines[lo].value)
  ELSE IF lines[lo].k = "commandFunction line"
  THEN JStr(Join([i \in 1..(hi - lo + 1) |-> lines[lo + i - 1].line], <<"\n">>))
  ELSE IF lines[lo].k = "item"
  THEN JArr([i \in 1..(hi - lo + 1) |-> ReadScalar(lines[lo + i - 1].value)])
  ELSE
    LET starts == SelectSeq([i \in 1..(hi - lo + 1) |-> lo + i - 1],
                            LAMBDA i : lines[i].indent = lines[lo].indent)
        endOf(j) == IF j = Len(starts) THEN hi ELSE starts[j + 1] - 1
    IN  JObj([j \in 1..Len(starts) |-> lines[starts[j]].key],
             [j \in 1..Len(starts) |->
                IF lines[starts[j]].k = "field" THEN ReadScalar(lines[starts[j]].value)
                ELSE ReadNode(lines, starts[j] + 1, endOf(j))])

\* the text of the generator's output as the validator's YAML.parse reads it
EmittedDescriptor(text) == Doc(ReadNode(ContentLines(text), 1, Len(ContentLines(text))))

InitRoundTrip ==
  /\ req \in YamlArgs
  /\ mode = "none"
  /\ op = "idle"
  /\ res = NoResult

GenerateDescriptor ==
  /\ op = "idle"
  /\ op' = "generateSmitheryYaml"
  /\ res' = generateSmitheryYaml(req)
  /\ UNCHANGED <<req, mode>>

ValidateGenerated ==
  /\ op = "generateSmitheryYaml"
  /\ res.status = "ok"
  /\ op' = "validateSmitheryYaml"
  /\ res' = validateSmitheryYaml([yamlContent |-> EmittedDescriptor(res.text)])
  /\ UNCHANGED <<req, mode>>

NextRoundTrip ==
  \/ GenerateDescriptor
  \/ ValidateGenerated

SpecRoundTrip == InitRoundTrip /\ [][NextRoundTrip]_vars

\* C30: for every parameter combination the generate_smithery_yaml input
\* schema accepts, the descriptor generateSmitheryYaml emits is reported
\* valid by validateSmitheryYaml.
C30_AsStated ==
  op = "validateSmitheryYaml" => ReportsValid

\* where generator and validator do agree: env absent or non-empty, and http,
\* stdio with a command function, or the typescript runtime
C30_AgreementWhenStartable ==
  (op = "validateSmitheryYaml"
   /\ req.env # JObj(<<>>, <<>>)
   /\ (\/ req.runtime = JStr(S_typescript)
       \/ req.startCommandType = JStr(S_http)
       \/ Truthy(req.commandFunction))) => ReportsValid

\* the emitted text read back is the object the generator assembled, an
\* empty env block apart
C30_ReadBack ==
  (op = "generateSmitheryYaml" /\ req.env # JObj(<<>>, <<>>)) => EmittedDescriptor(res.text).doc = YamlContent(req)

====
